---- MODULE Spec2Model ----
(***************************************************************************)
(* Model of the tree-diff engine of python_fix_explainer:                  *)
(*   edit_script.py       Edit.apply_edit, generate_edit_script            *)
(*   runtime_comparison.py (ordering of runtime comparisons)               *)
(* Trees are finite maps from node ids to node records.  The primitives of *)
(* the tree module (manip_ast) are not part of the sources at hand; they   *)
(* are written after the specification's data model (section 3).           *)
(***************************************************************************)
EXTENDS Integers, Sequences, FiniteSets, TLC

(***************************************************************************)
(* Bounds of the model.                                                    *)
(***************************************************************************)
\* largest number of nodes of a tree of the general family
MaxNodes == 3
\* largest number of children of the root list of the list family
MaxKids == 4
\* largest number of children of the root list of the identifier family
RenameKids == 2

\* ids of the dest tree are DestBase + 1, DestBase + 2, ...; ids of the
\* source tree are 1, 2, ... (uuids: the two trees share no id)
DestBase == 10
MaxTree == IF MaxNodes > MaxKids + 1 THEN MaxNodes ELSE MaxKids + 1
SourceIds == 1..MaxTree
DestIds == (DestBase + 1)..(DestBase + MaxTree)
Ids == SourceIds \cup DestIds
\* the absent node (None)
NoNode == 0

(***************************************************************************)
(* Kinds of node.  Seq is the list node (children by position); BinOp and  *)
(* Return are keyed nodes; Name and arg are identifiers.                   *)
(***************************************************************************)
Kinds == {"Seq", "BinOp", "Return", "Name", "arg"}
Fields(kind) ==
  CASE kind = "BinOp" -> {"left", "right"}
    [] kind = "Return" -> {"value"}
    [] OTHER -> {}
FieldKeys == {"left", "right", "value"}
Old(k) ==
  CASE k = "left" -> "old_left"
    [] k = "right" -> "old_right"
    [] k = "value" -> "old_value"
    [] OTHER -> "old_old"
SentinelKeys == {Old(k) : k \in FieldKeys} \cup {"old_old"}
SlotKeys == FieldKeys \cup SentinelKeys
\* key_in_parent.startswith('old_')
IsSentinel(k) == k \in SentinelKeys
\* key_in_parent of a child of a list (an index: not a string)
ListKey == "#"
\* key_in_parent of a node that was never attached (None)
NoKey == ""
\* type(key_in_parent) == str and key_in_parent is truthy
IsStrKey(k) == k \in SlotKeys
\* order in which the children of a keyed node are listed
KeyOrder == <<"left", "right", "value", "old_left", "old_right", "old_value", "old_old">>

(***************************************************************************)
(* Node records and trees.                                                 *)
(***************************************************************************)
EmptySlots == [k \in SlotKeys |-> NoNode]
AbsentNode ==
  [kind |-> "none", ident |-> "", ctx |-> "", parent |-> NoNode, key |-> NoKey,
   orig_key |-> NoKey, displaced_by |-> NoNode, slots |-> EmptySlots, kids |-> <<>>]
\* ManipulableAst(ast, node_index, shallow=True): a node without children
ShallowNode(kind, ident, ctx) ==
  [AbsentNode EXCEPT !.kind = kind, !.ident = ident, !.ctx = ctx]
EmptyTree == [n \in Ids |-> AbsentNode]

IsListNode(T, n) == T[n].kind = "Seq"
\* the printable short form of one node
NodeName(T, n) == <<T[n].kind, T[n].ident, T[n].ctx>>
\* ast._fields of the node's current kind
NodeFields(T, n) == Fields(T[n].kind)

SeqToSet(s) == {s[i] : i \in 1..Len(s)}
IndexOf(s, x) == CHOOSE i \in 1..Len(s) : s[i] = x
RemoveFrom(s, x) == SelectSeq(s, LAMBDA y : y # x)
InsertAt(s, i, x) == SubSeq(s, 1, i - 1) \o <<x>> \o SubSeq(s, i, Len(s))

\* the children of a node, in order
KeyedChildren(T, n) ==
  LET present == SelectSeq(KeyOrder, LAMBDA k : T[n].slots[k] # NoNode)
  IN [i \in 1..Len(present) |-> T[n].slots[present[i]]]
Children(T, n) == IF IsListNode(T, n) THEN T[n].kids ELSE KeyedChildren(T, n)

\* remove_child(c): c leaves the children of its parent; c keeps its
\* parent and key_in_parent fields
RemoveChild(T, c) ==
  LET p == T[c].parent
  IN IF p = NoNode THEN T
     ELSE IF IsListNode(T, p)
          THEN [T EXCEPT ![p].kids = RemoveFrom(@, c)]
          ELSE IF IsStrKey(T[c].key) /\ T[p].slots[T[c].key] = c
               THEN [T EXCEPT ![p].slots[T[c].key] = NoNode]
               ELSE T

\* add_child_at_key(c, k): an occupant of slot k is displaced to old_<k>
AddChildAtKey(T, p, c, k) ==
  LET occ == T[p].slots[k]
      T1 == IF occ # NoNode /\ occ # c
            THEN [T EXCEPT ![occ].key = Old(k),
                           ![occ].orig_key = k,
                           ![occ].displaced_by = c,
                           ![p].slots[Old(k)] = occ]
            ELSE T
  IN [T1 EXCEPT ![p].slots[k] = c, ![c].parent = p, ![c].key = k]

\* add_child_between(before, after, c): references that are not children of
\* p are ignored; without a usable reference the child goes to the tail if
\* before was given, else to the head
AddChildBetween(T, p, before, after, c) ==
  LET ks == T[p].kids
      pos == IF before # NoNode /\ before \in SeqToSet(ks)
               THEN IndexOf(ks, before) + 1
             ELSE IF after # NoNode /\ after \in SeqToSet(ks)
               THEN IndexOf(ks, after)
             ELSE IF before # NoNode THEN Len(ks) + 1
             ELSE 1
  IN [T EXCEPT ![p].kids = InsertAt(ks, pos, c), ![c].parent = p, ![c].key = ListKey]

\* get_child_neighbors(c): predecessor and successor of c in its list parent
ChildNeighbors(T, p, c) ==
  LET ks == T[p].kids
      i == IndexOf(ks, c)
  IN <<IF i > 1 THEN ks[i - 1] ELSE NoNode,
       IF i < Len(ks) THEN ks[i + 1] ELSE NoNode>>

\* update(other): adopt the kind, name and payload of other; keep id and children
UpdateNode(T, n, other) ==
  [T EXCEPT ![n].kind = other.kind, ![n].ident = other.ident, ![n].ctx = other.ctx]

(***************************************************************************)
(* Traversals.                                                             *)
(***************************************************************************)
RECURSIVE FlattenSeqs(_)
FlattenSeqs(ss) == IF ss = <<>> THEN <<>> ELSE Head(ss) \o FlattenSeqs(Tail(ss))

RECURSIVE Postorder(_, _)
Postorder(T, n) ==
  LET cs == Children(T, n)
  IN FlattenSeqs([i \in 1..Len(cs) |-> Postorder(T, cs[i])]) \o <<n>>

RECURSIVE BreadthFrom(_, _)
BreadthFrom(T, queue) ==
  IF queue = <<>> THEN <<>>
  ELSE <<Head(queue)>> \o BreadthFrom(T, Tail(queue) \o Children(T, Head(queue)))
BreadthFirst(T, root) == BreadthFrom(T, <<root>>)

\* str(tree): names, keys and order of the nodes below n, without their ids
RECURSIVE Printable(_, _)
Printable(T, n) ==
  LET cs == Children(T, n)
  IN <<NodeName(T, n),
       [i \in 1..Len(cs) |-> <<T[cs[i]].key, Printable(T, cs[i])>>]>>

(***************************************************************************)
(* Input trees.  A tree is drawn as vectors over the local numbers 1..n    *)
(* (node 1 is the root, the parent of a node has a smaller number, the     *)
(* children of a list are in ascending number) and then given its ids.     *)
(***************************************************************************)
IdentSeq == <<"x", "y", "z", "u", "v", "w">>
Idents == {IdentSeq[i] : i \in 1..Len(IdentSeq)}
InnerKinds == {"Seq", "BinOp", "Return"}

Shapes(n) == {pv \in [2..n -> 1..n] : \A i \in 2..n : pv[i] < i}

ValidVectors(v) ==
  /\ \A i \in 2..v.n :
       /\ v.kv[v.pv[i]] \in InnerKinds
       /\ IF v.kv[v.pv[i]] = "Seq"
          THEN v.keyv[i] = ListKey
          ELSE v.keyv[i] \in Fields(v.kv[v.pv[i]])
       /\ \A j \in 2..v.n :
            (j # i /\ v.pv[j] = v.pv[i] /\ v.keyv[i] # ListKey) => v.keyv[j] # v.keyv[i]
  /\ \A i \in 1..v.n :
       /\ v.kv[i] \in {"Name", "arg"} <=> v.idv[i] # ""
       /\ v.kv[i] = "Name" <=> v.ctxv[i] # ""

TreeFrom(base, v) ==
  [id \in Ids |->
    IF id - base \notin 1..v.n THEN AbsentNode
    ELSE LET i == id - base
             mine == {j \in 2..v.n : v.pv[j] = i}
         IN [kind |-> v.kv[i], ident |-> v.idv[i], ctx |-> v.ctxv[i],
             parent |-> IF i = 1 THEN NoNode ELSE base + v.pv[i],
             key |-> IF i = 1 THEN NoKey ELSE v.keyv[i],
             orig_key |-> NoKey, displaced_by |-> NoNode,
             slots |-> [k \in SlotKeys |->
                          IF \E j \in mine : v.keyv[j] = k
                          THEN base + (CHOOSE j \in mine : v.keyv[j] = k)
                          ELSE NoNode],
             kids |-> IF v.kv[i] = "Seq"
                      THEN LET RECURSIVE Asc(_)
                               Asc(S) == IF S = {} THEN <<>>
                                         ELSE LET m == CHOOSE x \in S : \A y \in S : x <= y
                                              IN <<base + m>> \o Asc(S \ {m})
                           IN Asc(mine)
                      ELSE <<>>]]

\* general family: every shape of up to MaxNodes nodes; the leaves below the
\* root are variables in load context, one identifier per position
GeneralVector(n, pv, kv, keyv) ==
  [n |-> n, pv |-> pv, kv |-> kv, keyv |-> keyv,
   idv |-> [i \in 1..n |-> IF kv[i] = "Name" THEN IdentSeq[i] ELSE ""],
   ctxv |-> [i \in 1..n |-> IF kv[i] = "Name" THEN "Load" ELSE ""]]
GeneralVectors ==
  UNION {
    {v \in {GeneralVector(n, pv, kv, keyv) :
              pv \in Shapes(n), kv \in [1..n -> InnerKinds \cup {"Name"}],
              keyv \in [2..n -> FieldKeys \cup {ListKey}]} :
       /\ ValidVectors(v)
       /\ \A i \in 2..v.n : (\A j \in 2..v.n : v.pv[j] # i) => v.kv[i] = "Name"}
    : n \in 1..MaxNodes}

\* a root list whose children are the leaves lv (triples of kind, identifier
\* and context)
ListVector(lv) ==
  [n |-> Len(lv) + 1, pv |-> [i \in 2..(Len(lv) + 1) |-> 1],
   kv |-> [i \in 1..(Len(lv) + 1) |-> IF i = 1 THEN "Seq" ELSE lv[i - 1][1]],
   keyv |-> [i \in 2..(Len(lv) + 1) |-> ListKey],
   idv |-> [i \in 1..(Len(lv) + 1) |-> IF i = 1 THEN "" ELSE lv[i - 1][2]],
   ctxv |-> [i \in 1..(Len(lv) + 1) |-> IF i = 1 THEN "" ELSE lv[i - 1][3]]]

\* list family: a root list of up to MaxKids different statements
ListVectors == {ListVector([i \in 1..k |-> <<"Name", IdentSeq[i], "Load">>]) : k \in 0..MaxKids}

\* identifier family: a root list of up to RenameKids identifiers (variables
\* in store or load context, formal parameters)
Leaves(ids, loaded) ==
  {<<"Name", id, "Store">> : id \in ids} \cup {<<"arg", id, "">> : id \in ids}
    \cup {<<"Name", loaded, "Load">>}
RenameVectors(ids, loaded) ==
  UNION {{ListVector(lv) : lv \in [1..k -> Leaves(ids, loaded)]} : k \in 0..RenameKids}

SourceRoot == 1
DestRoot == DestBase + 1

\* the mappings of two trees: partial bijections that pair the roots (and
\* pair lists with lists)
Mappings(S, D) ==
  LET sn == {n \in SourceIds : S[n].kind # "none"} \ {SourceRoot}
      dn == {n \in DestIds : D[n].kind # "none"} \ {DestRoot}
      pairs == {p \in sn \X dn : IsListNode(S, p[1]) <=> IsListNode(D, p[2])}
  IN {m \cup {<<SourceRoot, DestRoot>>} :
        m \in {q \in SUBSET pairs :
                 \A a \in q, b \in q : (a[1] = b[1] \/ a[2] = b[2]) => a = b}}

\* the families of inputs: the vectors of the source and of the dest tree
Families == {"general", "list", "identifier"}
SourceVectors(f) ==
  CASE f = "general" -> GeneralVectors
    [] f = "list" -> ListVectors
    [] f = "identifier" -> RenameVectors({"x", "y"}, "x")
DestVectors(f) ==
  CASE f = "general" -> GeneralVectors
    [] f = "list" -> ListVectors
    [] f = "identifier" -> RenameVectors({"y", "z"}, "y")

(***************************************************************************)
(* Edit records (class Edit).                                              *)
(***************************************************************************)
Actions == {"UPDATE", "INSERT", "MOVE", "DELETE"}
Stages == <<"UPDATE", "ALIGN_KEYS", "ALIGN", "INSERT", "MOVE", "DELETE">>
StageRank(stage) == CHOOSE i \in 1..Len(Stages) : Stages[i] = stage

Edit(action, stage, node_id) ==
  [action |-> action, stage |-> stage, node_id |-> node_id,
   parent_id |-> NoNode, new_node_id |-> NoNode, key_in_parent |-> NoKey,
   before |-> NoNode, after |-> NoNode,
   is_fix_temp_key |-> FALSE, orig_key |-> NoKey, displaced_by_id |-> NoNode,
   is_rename |-> FALSE, old_name |-> "", new_name |-> "",
   is_cleanup_after_node_type_change |-> FALSE]

(***************************************************************************)
(* difflib.SequenceMatcher(None, a, b).get_matching_blocks(): the longest  *)
(* matching block (earliest in a, then earliest in b), then the same to    *)
(* its left and to its right.  Bounds are first index and one past last.   *)
(***************************************************************************)
RECURSIVE MatchRun(_, _, _, _, _, _)
MatchRun(a, b, i, j, ahi, bhi) ==
  IF i < ahi /\ j < bhi /\ a[i] = b[j] THEN 1 + MatchRun(a, b, i + 1, j + 1, ahi, bhi) ELSE 0

FindLongestMatch(a, alo, ahi, b, blo, bhi) ==
  LET cands == {<<i, j, MatchRun(a, b, i, j, ahi, bhi)>> : i \in alo..(ahi - 1), j \in blo..(bhi - 1)}
      Better(x, y) ==
        \/ x[3] > y[3]
        \/ x[3] = y[3] /\ x[1] < y[1]
        \/ x[3] = y[3] /\ x[1] = y[1] /\ x[2] <= y[2]
  IN IF cands = {} THEN <<alo, blo, 0>>
     ELSE CHOOSE x \in cands : \A y \in cands : Better(x, y)

RECURSIVE MatchingBlocks(_, _, _, _, _, _)
MatchingBlocks(a, alo, ahi, b, blo, bhi) ==
  LET m == FindLongestMatch(a, alo, ahi, b, blo, bhi)
  IN IF m[3] = 0 THEN <<>>
     ELSE (IF alo < m[1] /\ blo < m[2]
           THEN MatchingBlocks(a, alo, m[1], b, blo, m[2]) ELSE <<>>)
          \o <<m>>
          \o (IF m[1] + m[3] < ahi /\ m[2] + m[3] < bhi
              THEN MatchingBlocks(a, m[1] + m[3], ahi, b, m[2] + m[3], bhi) ELSE <<>>)

GetMatchingBlocks(a, b) == MatchingBlocks(a, 1, Len(a) + 1, b, 1, Len(b) + 1)

(***************************************************************************)
(* generate_edit_script: the walk over the mapped source nodes.  g holds   *)
(* the locals of the call: T the working source tree, D the dest tree,     *)
(* source_to_dest, dest_to_source, the two rename maps, edit_script and    *)
(* additional_nodes.                                                       *)
(***************************************************************************)
\* a rename test that tells a rename for two Name nodes only when both are
\* store operations
IsUpdateVariableRenameStoreOnly(sn, dn, rs2d, rd2s) ==
  IF sn.kind = "Name" /\ dn.kind = "Name" /\ sn.ctx = "Store" /\ dn.ctx = "Store"
  THEN IF rs2d[sn.ident] = ""
       THEN <<TRUE, sn.ident, dn.ident,
              [rs2d EXCEPT ![sn.ident] = dn.ident], [rd2s EXCEPT ![dn.ident] = sn.ident]>>
       ELSE <<TRUE, sn.ident, dn.ident, rs2d, rd2s>>
  ELSE IF sn.kind = "arg" /\ dn.kind = "arg"
  THEN <<TRUE, sn.ident, dn.ident,
         [rs2d EXCEPT ![sn.ident] = dn.ident], [rd2s EXCEPT ![dn.ident] = sn.ident]>>
  ELSE <<FALSE, "", "", rs2d, rd2s>>

\* a rename test in which every store operation writes the rename maps
IsUpdateVariableRenameLastStore(sn, dn, rs2d, rd2s) ==
  IF sn.kind = "Name" /\ dn.kind = "Name"
  THEN IF sn.ctx = "Store" /\ dn.ctx = "Store"
       THEN <<TRUE, sn.ident, dn.ident,
              [rs2d EXCEPT ![sn.ident] = dn.ident], [rd2s EXCEPT ![dn.ident] = sn.ident]>>
       ELSE <<TRUE, sn.ident, dn.ident, rs2d, rd2s>>
  ELSE IF sn.kind = "arg" /\ dn.kind = "arg"
  THEN <<TRUE, sn.ident, dn.ident,
         [rs2d EXCEPT ![sn.ident] = dn.ident], [rd2s EXCEPT ![dn.ident] = sn.ident]>>
  ELSE <<FALSE, "", "", rs2d, rd2s>>

\* is_update_variable_rename: <<is_rename, old_name, new_name, s_to_d, d_to_s>>
IsUpdateVariableRename(sn, dn, rs2d, rd2s) ==
  IF sn.kind = "Name" /\ dn.kind = "Name"
  THEN IF sn.ctx = "Store" /\ dn.ctx = "Store" /\ rs2d[sn.ident] = ""
       THEN <<TRUE, sn.ident, dn.ident,
              [rs2d EXCEPT ![sn.ident] = dn.ident], [rd2s EXCEPT ![dn.ident] = sn.ident]>>
       ELSE <<TRUE, sn.ident, dn.ident, rs2d, rd2s>>
  ELSE IF sn.kind = "arg" /\ dn.kind = "arg"
  THEN <<TRUE, sn.ident, dn.ident,
         [rs2d EXCEPT ![sn.ident] = dn.ident], [rd2s EXCEPT ![dn.ident] = sn.ident]>>
  ELSE <<FALSE, "", "", rs2d, rd2s>>

\* is_insert_variable_rename: <<is_rename, old_name, new_name>>
IsInsertVariableRename(node, rd2s) ==
  IF node.kind = "Name" /\ rd2s[node.ident] # ""
  THEN <<TRUE, rd2s[node.ident], node.ident>>
  ELSE <<FALSE, "", "">>

\* the copy of a dest node that goes to additional_nodes
DonorOf(dn) == ShallowNode(dn.kind, dn.ident, dn.ctx)

\* an update stage that stores no donor
UpdateStageNoDonor(g, s, d) ==
  IF NodeName(g.T, s) # NodeName(g.D, d)
  THEN LET r == IsUpdateVariableRename(g.T[s], g.D[d], g.var_renames_s_to_d, g.var_renames_d_to_s)
           e0 == [Edit("UPDATE", "UPDATE", s) EXCEPT !.new_node_id = d]
           e == IF r[1] THEN [e0 EXCEPT !.is_rename = TRUE, !.old_name = r[2], !.new_name = r[3]]
                ELSE e0
       IN [g EXCEPT !.var_renames_s_to_d = r[4], !.var_renames_d_to_s = r[5],
                    !.edit_script = Append(@, e),
                    !.T = UpdateNode(g.T, s, g.D[d])]
  ELSE g

\* Update stage of one mapped pair (s, d)
UpdateStage(g, s, d) ==
  IF NodeName(g.T, s) # NodeName(g.D, d)
  THEN LET r == IsUpdateVariableRename(g.T[s], g.D[d], g.var_renames_s_to_d, g.var_renames_d_to_s)
           e0 == [Edit("UPDATE", "UPDATE", s) EXCEPT !.new_node_id = d]
           e == IF r[1] THEN [e0 EXCEPT !.is_rename = TRUE, !.old_name = r[2], !.new_name = r[3]]
                ELSE e0
       IN [g EXCEPT !.var_renames_s_to_d = r[4], !.var_renames_d_to_s = r[5],
                    !.edit_script = Append(@, e),
                    !.additional_nodes[d] = DonorOf(g.D[d]),
                    !.T = UpdateNode(g.T, s, g.D[d])]
  ELSE g

\* an align-keys stage that leaves a node under a sentinel key where it is
AlignKeysStageFromField(g, s, d) ==
  LET p == g.T[s].parent
  IN IF /\ g.T[s].key # g.D[d].key
        /\ g.T[s].key \in FieldKeys
        /\ ~IsListNode(g.T, p)
        /\ g.source_to_dest[p] # NoNode
        /\ g.source_to_dest[p] = g.D[d].parent
     THEN [g EXCEPT !.T = AddChildAtKey(RemoveChild(g.T, s), p, s, g.D[d].key),
                    !.edit_script =
                       Append(@, [Edit("MOVE", "ALIGN_KEYS", s) EXCEPT
                                    !.parent_id = p, !.key_in_parent = g.D[d].key])]
     ELSE g

\* an align-keys stage that also re-keys a node whose parent is not the
\* correspondent of the parent of d
AlignKeysStageAnyParent(g, s, d) ==
  LET p == g.T[s].parent
  IN IF /\ g.T[s].key # g.D[d].key
        /\ ~IsListNode(g.T, p)
        /\ g.D[d].key \in FieldKeys
     THEN [g EXCEPT !.T = AddChildAtKey(RemoveChild(g.T, s), p, s, g.D[d].key),
                    !.edit_script =
                       Append(@, [Edit("MOVE", "ALIGN_KEYS", s) EXCEPT
                                    !.parent_id = p, !.key_in_parent = g.D[d].key])]
     ELSE g

\* Align-keys stage of one mapped pair (s, d)
AlignKeysStage(g, s, d) ==
  LET p == g.T[s].parent
  IN IF /\ g.T[s].key # g.D[d].key
        /\ ~IsListNode(g.T, p)
        /\ g.source_to_dest[p] # NoNode
        /\ g.source_to_dest[p] = g.D[d].parent
     THEN [g EXCEPT !.T = AddChildAtKey(RemoveChild(g.T, s), p, s, g.D[d].key),
                    !.edit_script =
                       Append(@, [Edit("MOVE", "ALIGN_KEYS", s) EXCEPT
                                    !.parent_id = p, !.key_in_parent = g.D[d].key])]
     ELSE g

\* the loop over mapped_dest_order that re-inserts the children that are
\* not correctly aligned
RECURSIVE AlignLoop(_, _, _, _, _)
AlignLoop(g, s, order, aligned, i) ==
  IF i > Len(order) THEN g
  ELSE IF order[i] \in aligned THEN AlignLoop(g, s, order, aligned, i + 1)
  ELSE LET before_c == IF i > 1 THEN order[i - 1] ELSE NoNode
           after_c == IF i < Len(order) THEN order[i + 1] ELSE NoNode
           T1 == AddChildBetween(RemoveChild(g.T, order[i]), s, before_c, after_c, order[i])
           e == [Edit("MOVE", "ALIGN", order[i]) EXCEPT
                   !.parent_id = s, !.before = before_c, !.after = after_c]
       IN AlignLoop([g EXCEPT !.T = T1, !.edit_script = Append(@, e)], s, order, aligned, i + 1)

MappedSourceOrder(g, s, d) ==
  SelectSeq(g.T[s].kids,
            LAMBDA c : g.source_to_dest[c] # NoNode /\ g.D[g.source_to_dest[c]].parent = d)
MappedDestOrder(g, s, d) ==
  LET ds == SelectSeq(Children(g.D, d),
                      LAMBDA c : g.dest_to_source[c] # NoNode /\ g.T[g.dest_to_source[c]].parent = s)
  IN [i \in 1..Len(ds) |-> g.dest_to_source[ds[i]]]
CorrectlyAligned(a, b) ==
  LET blocks == GetMatchingBlocks(a, b)
  IN UNION {{a[i] : i \in blocks[m][1]..(blocks[m][1] + blocks[m][3] - 1)} : m \in 1..Len(blocks)}

\* Align-in-lists stage of one mapped pair (s, d)
AlignStage(g, s, d) ==
  IF IsListNode(g.T, s)
  THEN LET a == MappedSourceOrder(g, s, d)
           b == MappedDestOrder(g, s, d)
       IN AlignLoop(g, s, b, CorrectlyAligned(a, b), 1)
  ELSE g

\* one iteration of the loop over depth_first(source_tree)
WalkNode(g, s) ==
  IF g.source_to_dest[s] = NoNode THEN g
  ELSE LET d == g.source_to_dest[s]
       IN AlignStage(AlignKeysStage(UpdateStage(g, s, d), s, d), s, d)

(***************************************************************************)
(* generate_edit_script: helpers of the insert, move and delete stages.    *)
(***************************************************************************)
\* get_source_parent_of_mapped(dest_index)
SourceParentOfMapped(g, d) == g.T[g.dest_to_source[d]].parent

\* the two while loops that skip dest siblings that are not mapped to a
\* child of desired_parent; side 1 walks backwards, side 2 forwards
RECURSIVE SkipUnmapped(_, _, _, _, _)
SkipUnmapped(g, dp, c, desired_parent, side) ==
  IF c # NoNode /\ (g.dest_to_source[c] = NoNode \/ SourceParentOfMapped(g, c) # desired_parent)
  THEN SkipUnmapped(g, dp, ChildNeighbors(g.D, dp, c)[side], desired_parent, side)
  ELSE c

\* flags that never tell a cleanup after a change of node type
KeyFlagsNoCleanup(T, n, e) ==
  IF IsStrKey(T[n].key) /\ IsSentinel(T[n].key)
  THEN [e EXCEPT !.is_fix_temp_key = TRUE, !.orig_key = T[n].orig_key,
                 !.displaced_by_id = T[n].displaced_by]
  ELSE e

\* the flags an edit gets from the key its subject node is under
KeyFlags(T, n, e) ==
  IF IsStrKey(T[n].key)
  THEN IF IsSentinel(T[n].key)
       THEN [e EXCEPT !.is_fix_temp_key = TRUE, !.orig_key = T[n].orig_key,
                      !.displaced_by_id = T[n].displaced_by]
       ELSE IF T[n].key \notin NodeFields(T, T[n].parent)
            THEN [e EXCEPT !.is_cleanup_after_node_type_change = TRUE]
            ELSE e
  ELSE e

\* insert_based_on_dest_location(source_node_index, ins_edit): the pair of
\* the locals after the insertion and the completed edit
InsertBasedOnDestLocation(g, s, ins_edit) ==
  LET d == g.source_to_dest[s]
      dp == g.D[d].parent
      desired_parent == g.dest_to_source[dp]
      e1 == [ins_edit EXCEPT !.parent_id = desired_parent]
  IN IF IsListNode(g.T, desired_parent)
     THEN LET nb == ChildNeighbors(g.D, dp, d)
              dest_before == SkipUnmapped(g, dp, nb[1], desired_parent, 1)
              dest_after == SkipUnmapped(g, dp, nb[2], desired_parent, 2)
              insert_before == IF dest_before # NoNode THEN g.dest_to_source[dest_before] ELSE NoNode
              insert_after == IF dest_after # NoNode THEN g.dest_to_source[dest_after] ELSE NoNode
          IN <<[g EXCEPT !.T = AddChildBetween(g.T, desired_parent, insert_before, insert_after, s)],
               [e1 EXCEPT !.before = insert_before, !.after = insert_after]>>
     ELSE LET e2 == KeyFlags(g.T, s, e1)
          IN <<[g EXCEPT !.T = AddChildAtKey(g.T, desired_parent, s, g.D[d].key)],
               [e2 EXCEPT !.key_in_parent = g.D[d].key]>>

\* an insert loop that places the new node and records no edit for it
InsertNodeUnrecorded(g, d) ==
  IF g.dest_to_source[d] = NoNode
  THEN LET g1 == [g EXCEPT !.additional_nodes[d] = DonorOf(g.D[d]),
                           !.T[d] = DonorOf(g.D[d]),
                           !.mapping = @ \cup {<<d, d>>},
                           !.source_to_dest[d] = d,
                           !.dest_to_source[d] = d]
       IN InsertBasedOnDestLocation(g1, d, Edit("INSERT", "INSERT", d))[1]
  ELSE g

\* one iteration of the insert loop over breadth_first(dest_tree)
InsertNode(g, d) ==
  IF g.dest_to_source[d] = NoNode
  THEN LET to_insert == DonorOf(g.D[d])
           g1 == [g EXCEPT !.additional_nodes[d] = DonorOf(g.D[d]),
                           !.T[d] = to_insert,
                           !.mapping = @ \cup {<<d, d>>},
                           !.source_to_dest[d] = d,
                           !.dest_to_source[d] = d]
           r == IsInsertVariableRename(to_insert, g.var_renames_d_to_s)
           e0 == Edit("INSERT", "INSERT", d)
           insert_e == IF r[1]
                       THEN [e0 EXCEPT !.is_rename = TRUE, !.old_name = r[2], !.new_name = r[3]]
                       ELSE e0
           res == InsertBasedOnDestLocation(g1, d, insert_e)
       IN [res[1] EXCEPT !.edit_script = Append(@, res[2])]
  ELSE g

\* a move loop that re-inserts every node, also under the parent it has
MoveNodeAlways(g, d) ==
  IF g.D[d].parent # NoNode
  THEN LET s == g.dest_to_source[d]
           g1 == [g EXCEPT !.T = RemoveChild(g.T, s)]
           res == InsertBasedOnDestLocation(g1, s, Edit("MOVE", "MOVE", s))
       IN [res[1] EXCEPT !.edit_script = Append(@, res[2])]
  ELSE g

\* a move loop whose edits carry the stage of the list alignment
MoveNodeAsAlign(g, d) ==
  IF g.D[d].parent # NoNode
  THEN LET s == g.dest_to_source[d]
           correct_s_parent == g.dest_to_source[g.D[d].parent]
       IN IF g.T[s].parent # correct_s_parent
          THEN LET g1 == [g EXCEPT !.T = RemoveChild(g.T, s)]
                   res == InsertBasedOnDestLocation(g1, s, Edit("MOVE", "ALIGN", s))
               IN [res[1] EXCEPT !.edit_script = Append(@, res[2])]
          ELSE g
  ELSE g

\* a move loop that leaves every node where it is
MoveNodeSkip(g, d) == g

\* one iteration of the move loop over breadth_first(dest_tree)
MoveNode(g, d) ==
  IF g.D[d].parent # NoNode
  THEN LET s == g.dest_to_source[d]
           correct_s_parent == g.dest_to_source[g.D[d].parent]
       IN IF g.T[s].parent # correct_s_parent
          THEN LET g1 == [g EXCEPT !.T = RemoveChild(g.T, s)]
                   res == InsertBasedOnDestLocation(g1, s, Edit("MOVE", "MOVE", s))
               IN [res[1] EXCEPT !.edit_script = Append(@, res[2])]
          ELSE g
  ELSE g

\* a delete loop that keeps the nodes that are under a sentinel key
DeleteNodeKeepDisplaced(g, s) ==
  IF g.source_to_dest[s] = NoNode /\ ~IsSentinel(g.T[s].key)
  THEN LET T1 == RemoveChild(g.T, s)
       IN [g EXCEPT !.T = T1,
                    !.edit_script = Append(@, KeyFlags(T1, s, Edit("DELETE", "DELETE", s)))]
  ELSE g

\* one iteration of the delete loop over the materialised postorder
DeleteNode(g, s) ==
  IF g.source_to_dest[s] = NoNode
  THEN LET T1 == RemoveChild(g.T, s)
       IN [g EXCEPT !.T = T1,
                    !.edit_script = Append(@, KeyFlags(T1, s, Edit("DELETE", "DELETE", s)))]
  ELSE g

(***************************************************************************)
(* Edit.apply_edit on the consumer's tree A (index_to_node: the nodes of   *)
(* the consumer's tree and the donor nodes).  The result is the tree and   *)
(* a status: "ok", "forbidden" (ForbiddenEditException) or "error" (a      *)
(* failed lookup).                                                         *)
(***************************************************************************)
Known(A, n) == n \in Ids /\ A[n].kind # "none"

\* the node an UPDATE edit reads the new contents from
UpdateNewNodeId(e) == e.node_id

ApplyUpdate(A, e) ==
  IF Known(A, UpdateNewNodeId(e))
  THEN [T |-> UpdateNode(A, e.node_id, A[UpdateNewNodeId(e)]), status |-> "ok"]
  ELSE [T |-> A, status |-> "error"]

\* the guard of the DELETE and INSERT branches
ForbiddenEdit(A, e, nonleaf_OK) == ~nonleaf_OK /\ Len(Children(A, e.node_id)) > 0

ApplyDelete(A, e, nonleaf_OK) ==
  IF ForbiddenEdit(A, e, nonleaf_OK) THEN [T |-> A, status |-> "forbidden"]
  ELSE IF A[e.node_id].parent = NoNode THEN [T |-> A, status |-> "error"]
  ELSE [T |-> RemoveChild(A, e.node_id), status |-> "ok"]

ApplyInsert(A, e, nonleaf_OK) ==
  IF ForbiddenEdit(A, e, nonleaf_OK) THEN [T |-> A, status |-> "forbidden"]
  ELSE IF ~Known(A, e.parent_id) THEN [T |-> A, status |-> "error"]
  ELSE IF e.key_in_parent # NoKey
  THEN [T |-> AddChildAtKey(A, e.parent_id, e.node_id, e.key_in_parent), status |-> "ok"]
  ELSE IF (e.before # NoNode /\ ~Known(A, e.before)) \/ (e.after # NoNode /\ ~Known(A, e.after))
  THEN [T |-> A, status |-> "error"]
  ELSE [T |-> AddChildBetween(A, e.parent_id, e.before, e.after, e.node_id), status |-> "ok"]

\* a MOVE that keeps the non-leaf guard
ApplyMoveGuarded(A, e) ==
  LET del == ApplyDelete(A, e, FALSE)
  IN IF del.status # "ok" THEN del ELSE ApplyInsert(del.T, e, FALSE)

ApplyMove(A, e) ==
  LET del == ApplyDelete(A, e, TRUE)
  IN IF del.status # "ok" THEN del ELSE ApplyInsert(del.T, e, TRUE)

ApplyEdit(A, e, nonleaf_OK) ==
  IF ~Known(A, e.node_id) THEN [T |-> A, status |-> "error"]
  ELSE CASE e.action = "UPDATE" -> ApplyUpdate(A, e)
         [] e.action = "DELETE" -> ApplyDelete(A, e, nonleaf_OK)
         [] e.action = "INSERT" -> ApplyInsert(A, e, nonleaf_OK)
         [] e.action = "MOVE" -> ApplyMove(A, e)

\* index_to_node of a consumer: a clone of the source tree and the donors
IndexToNode(S, donors) ==
  [n \in Ids |-> IF donors[n].kind # "none" THEN donors[n] ELSE S[n]]

(***************************************************************************)
(* runtime_comparison.py.  A trace is the list of the executed ops, each   *)
(* with its op id and the values it pushed; an op-to-node mapping gives    *)
(* the tree node of an op id, or nothing.  Indices into traces are those   *)
(* of the code (the first op has index 0).                                 *)
(***************************************************************************)
\* longest trace
MaxTrace == 2
OpIds == {1, 2}
\* node ids that the two versions of the code share
TraceNodes == {1, 2}
\* pushed_values: nothing, or one value
PushedValues == {<<>>, <<1>>}
TracedOps == [op_id : OpIds, pushed_values : PushedValues]
OpsLists == UNION {[1..n -> TracedOps] : n \in 0..MaxTrace}
\* gen_op_to_node_mapping: NoNode stands for an op id that has no entry
OpToNodes == [OpIds -> TraceNodes \cup {NoNode}]
RunOutcomes == {"completed", "raised", "timed_out"}

\* longest trace of a run whose ops all push one value
LongTrace == 4
\* the traces of the runs whose ops all push one value
LongOpsLists ==
  UNION {[1..n -> {op \in TracedOps : op.pushed_values # <<>>}] : n \in 0..LongTrace}

\* longest list of comparisons given to compare_comparisons
MaxTests == 2
\* greatest deviation point of a comparison given to compare_comparisons
MaxCursor == 2
\* the fields of a RuntimeComparison that its order and its descriptions read
Comparisons ==
  {[run_status |-> o, run_completed |-> (o = "completed"), test_passed |-> p,
    last_matching_val_dest |-> c] : o \in RunOutcomes, p \in BOOLEAN, c \in 0..MaxCursor}
ComparisonLists == UNION {[1..n -> Comparisons] : n \in 0..MaxTests}

\* RuntimeOpMappingData()
RuntimeOpMappingData == [is_mapped |-> FALSE, mapped_op_index |-> -1, value_matches |-> FALSE]
NoTraces ==
  [source_ops |-> <<>>, dest_ops |-> <<>>,
   source_op_to_node |-> [o \in OpIds |-> NoNode], dest_op_to_node |-> [o \in OpIds |-> NoNode],
   run_outcome |-> "", eval_result |-> FALSE]
NoComparison ==
  [run_completed |-> FALSE, test_passed |-> FALSE, total_match_size |-> 0,
   last_matching_val_dest |-> 0, last_matching_val_source |-> 0,
   source_runtime_mapping_to_dest |-> <<>>, dest_runtime_mapping_to_source |-> <<>>]

(***************************************************************************)
(* State.  heap holds the objects (trees, mapping sets) by reference; the  *)
(* caller owns in_source, in_dest and in_mapping.  source_tree, dest_tree  *)
(* and index_mapping are the references the generator works through.       *)
(***************************************************************************)
VARIABLES heap, source_tree, dest_tree, index_mapping,
          source_to_dest, dest_to_source, var_renames_s_to_d, var_renames_d_to_s,
          edit_script, additional_nodes, pc, todo,
          app_tree, app_pos

\* State of the runtime comparison.  traces holds what the tracer and the
\* bytecode mapper give for the two versions of the code; self is the
\* RuntimeComparison under construction and runtime_diff the opcodes its
\* loop has not yet seen; orig_comps and new_comps are the arguments of
\* compare_comparisons, new_better, new_worse and same its counters, effect
\* its result; description holds what describe_improvement_or_regression
\* returned for each pair.
VARIABLES traces, self, runtime_diff,
          orig_comps, new_comps, new_better, new_worse, same, effect, description

gen_vars == <<heap, source_tree, dest_tree, index_mapping,
              source_to_dest, dest_to_source, var_renames_s_to_d, var_renames_d_to_s,
              edit_script, additional_nodes, todo, app_tree, app_pos>>
runtime_vars == <<traces, self, runtime_diff,
                  orig_comps, new_comps, new_better, new_worse, same, effect, description>>
vars == <<gen_vars, pc, runtime_vars>>

CallerRefs == {"in_source", "in_dest", "in_mapping"}
Refs == CallerRefs \cup {"gen_source", "gen_dest", "gen_mapping"}
\* no copy: the generator works on the caller's object
SameRef(r) == r

\* copy.deepcopy(x): the reference of the copy
DeepCopyRef(r) ==
  CASE r = "in_source" -> "gen_source"
    [] r = "in_dest" -> "gen_dest"
    [] r = "in_mapping" -> "gen_mapping"
    [] OTHER -> r

NoMap == [n \in Ids |-> NoNode]
NoRenames == [v \in Idents |-> ""]
NoDonors == EmptyTree

\* no runtime comparison is going on
RuntimeIdle ==
  /\ traces = NoTraces
  /\ self = NoComparison
  /\ runtime_diff = <<>>
  /\ orig_comps = <<>>
  /\ new_comps = <<>>
  /\ new_better = 0
  /\ new_worse = 0
  /\ same = 0
  /\ effect = ""
  /\ description = <<>>

\* no edit script is being generated or applied
GeneratorIdle ==
  /\ heap = [r \in Refs |-> IF r \in {"in_mapping", "gen_mapping"} THEN {} ELSE EmptyTree]
  /\ source_tree = "in_source"
  /\ dest_tree = "in_dest"
  /\ index_mapping = "in_mapping"
  /\ source_to_dest = NoMap
  /\ dest_to_source = NoMap
  /\ var_renames_s_to_d = NoRenames
  /\ var_renames_d_to_s = NoRenames
  /\ edit_script = <<>>
  /\ additional_nodes = NoDonors
  /\ todo = <<>>
  /\ app_tree = EmptyTree
  /\ app_pos = 0

Init ==
  \E f \in Families :
  \E sv \in SourceVectors(f), dv \in DestVectors(f) :
  \E m \in Mappings(TreeFrom(0, sv), TreeFrom(DestBase, dv)) :
    /\ (sv.kv[1] = "Seq") <=> (dv.kv[1] = "Seq")
    /\ heap = [r \in Refs |->
                 CASE r = "in_source" -> TreeFrom(0, sv)
                   [] r = "in_dest" -> TreeFrom(DestBase, dv)
                   [] r = "in_mapping" -> m
                   [] r = "gen_mapping" -> {}
                   [] OTHER -> EmptyTree]
    /\ source_tree = "in_source"
    /\ dest_tree = "in_dest"
    /\ index_mapping = "in_mapping"
    /\ source_to_dest = NoMap
    /\ dest_to_source = NoMap
    /\ var_renames_s_to_d = NoRenames
    /\ var_renames_d_to_s = NoRenames
    /\ edit_script = <<>>
    /\ additional_nodes = NoDonors
    /\ pc = "call"
    /\ todo = <<>>
    /\ app_tree = EmptyTree
    /\ app_pos = 0
    /\ RuntimeIdle

\* the locals of generate_edit_script as one record
Locals ==
  [T |-> heap[source_tree], D |-> heap[dest_tree], mapping |-> heap[index_mapping],
   source_to_dest |-> source_to_dest, dest_to_source |-> dest_to_source,
   var_renames_s_to_d |-> var_renames_s_to_d, var_renames_d_to_s |-> var_renames_d_to_s,
   edit_script |-> edit_script, additional_nodes |-> additional_nodes]

Store(g) ==
  /\ heap' = [r \in Refs |->
                IF r = source_tree THEN g.T
                ELSE IF r = index_mapping THEN g.mapping
                ELSE heap[r]]
  /\ source_to_dest' = g.source_to_dest
  /\ dest_to_source' = g.dest_to_source
  /\ var_renames_s_to_d' = g.var_renames_s_to_d
  /\ var_renames_d_to_s' = g.var_renames_d_to_s
  /\ edit_script' = g.edit_script
  /\ additional_nodes' = g.additional_nodes

\* entry of generate_edit_script: the deep copies and the record keeping
Enter ==
  /\ pc = "call"
  /\ LET st == DeepCopyRef(source_tree)
         dt == DeepCopyRef(dest_tree)
         im == DeepCopyRef(index_mapping)
         m == heap[index_mapping]
     IN /\ heap' = [r \in Refs |->
                      IF r = st THEN heap[source_tree]
                      ELSE IF r = dt THEN heap[dest_tree]
                      ELSE IF r = im THEN heap[index_mapping]
                      ELSE heap[r]]
        /\ source_tree' = st
        /\ dest_tree' = dt
        /\ index_mapping' = im
        /\ source_to_dest' = [n \in Ids |-> IF \E q \in m : q[1] = n
                                            THEN (CHOOSE q \in m : q[1] = n)[2] ELSE NoNode]
        /\ dest_to_source' = [n \in Ids |-> IF \E q \in m : q[2] = n
                                            THEN (CHOOSE q \in m : q[2] = n)[1] ELSE NoNode]
  /\ pc' = "walk"
  /\ todo' = <<SourceRoot>>
  /\ UNCHANGED runtime_vars
  /\ UNCHANGED <<var_renames_s_to_d, var_renames_d_to_s, edit_script, additional_nodes,
                 app_tree, app_pos>>

\* an insert loop that visits the children of a dest node from last to first
RECURSIVE BreadthFromLast(_, _)
BreadthFromLast(T, queue) ==
  IF queue = <<>> THEN <<>>
  ELSE LET cs == Children(T, Head(queue))
       IN <<Head(queue)>>
            \o BreadthFromLast(T, Tail(queue) \o [i \in 1..Len(cs) |-> cs[Len(cs) + 1 - i]])
InsertOrderFromLast(D) == BreadthFromLast(D, <<DestRoot>>)

\* the order of the insert loop: breadth_first(dest_tree)
InsertOrder(D) == BreadthFirst(D, DestRoot)

\* one iteration of the update/align loop; depth_first yields the children
\* of a node after the node
WalkStep ==
  /\ pc = "walk"
  /\ LET s == Head(todo)
         g == WalkNode(Locals, s)
         rest == Children(g.T, s) \o Tail(todo)
     IN /\ Store(g)
        /\ IF rest = <<>>
           THEN pc' = "insert" /\ todo' = InsertOrder(g.D)
           ELSE pc' = "walk" /\ todo' = rest
  /\ UNCHANGED runtime_vars
  /\ UNCHANGED <<source_tree, dest_tree, index_mapping, app_tree, app_pos>>

\* a move loop that visits the children of a dest node before the node
MoveOrderPostorder(D) == Postorder(D, DestRoot)

\* the order of the move loop: breadth_first(dest_tree)
MoveOrder(D) == BreadthFirst(D, DestRoot)

\* one iteration of the insert loop
InsertStep ==
  /\ pc = "insert"
  /\ LET g == InsertNode(Locals, Head(todo))
     IN /\ Store(g)
        /\ IF Tail(todo) = <<>>
           THEN pc' = "move" /\ todo' = MoveOrder(g.D)
           ELSE pc' = "insert" /\ todo' = Tail(todo)
  /\ UNCHANGED runtime_vars
  /\ UNCHANGED <<source_tree, dest_tree, index_mapping, app_tree, app_pos>>

\* one iteration of the move loop
MoveStep ==
  /\ pc = "move"
  /\ LET g == MoveNode(Locals, Head(todo))
     IN /\ Store(g)
        /\ IF Tail(todo) = <<>>
           THEN pc' = "delete" /\ todo' = Postorder(g.T, SourceRoot)
           ELSE pc' = "move" /\ todo' = Tail(todo)
  /\ UNCHANGED runtime_vars
  /\ UNCHANGED <<source_tree, dest_tree, index_mapping, app_tree, app_pos>>

\* one iteration of the delete loop
DeleteStep ==
  /\ pc = "delete"
  /\ LET g == DeleteNode(Locals, Head(todo))
     IN /\ Store(g)
        /\ IF Tail(todo) = <<>>
           THEN pc' = "verify" /\ todo' = <<>>
           ELSE pc' = "delete" /\ todo' = Tail(todo)
  /\ UNCHANGED runtime_vars
  /\ UNCHANGED <<source_tree, dest_tree, index_mapping, app_tree, app_pos>>

\* str(source_tree) != str(dest_tree)
TreesDiffer == Printable(heap[source_tree], SourceRoot) # Printable(heap[dest_tree], DestRoot)

\* the final verification: return the script or raise
Verify ==
  /\ pc = "verify"
  /\ pc' = IF TreesDiffer THEN "raised" ELSE "returned"
  /\ UNCHANGED runtime_vars
  /\ UNCHANGED <<heap, source_tree, dest_tree, index_mapping, source_to_dest, dest_to_source,
                 var_renames_s_to_d, var_renames_d_to_s, edit_script, additional_nodes,
                 todo, app_tree, app_pos>>

\* a consumer takes the returned script and donors to a fresh clone of source
BeginApply ==
  /\ pc = "returned"
  /\ pc' = IF edit_script = <<>> THEN "applied" ELSE "apply"
  /\ app_tree' = IndexToNode(heap["in_source"], additional_nodes)
  /\ app_pos' = 0
  /\ UNCHANGED runtime_vars
  /\ UNCHANGED <<heap, source_tree, dest_tree, index_mapping, source_to_dest, dest_to_source,
                 var_renames_s_to_d, var_renames_d_to_s, edit_script, additional_nodes, todo>>

\* the consumer applies the next edit of the script
ApplyStep ==
  /\ pc = "apply"
  /\ app_pos < Len(edit_script)
  /\ LET r == ApplyEdit(app_tree, edit_script[app_pos + 1], FALSE)
     IN /\ app_tree' = r.T
        /\ app_pos' = app_pos + 1
        /\ pc' = IF r.status # "ok" THEN r.status
                 ELSE IF app_pos + 1 = Len(edit_script) THEN "applied" ELSE "apply"
  /\ UNCHANGED runtime_vars
  /\ UNCHANGED <<heap, source_tree, dest_tree, index_mapping, source_to_dest, dest_to_source,
                 var_renames_s_to_d, var_renames_d_to_s, edit_script, additional_nodes, todo>>

Next ==
  \/ Enter
  \/ WalkStep
  \/ InsertStep
  \/ MoveStep
  \/ DeleteStep
  \/ Verify
  \/ BeginApply
  \/ ApplyStep

Spec == Init /\ [][Next]_vars

(***************************************************************************)
(* apply_edit on its own: a consumer holds an index_to_node of a tree and  *)
(* one donor, and applies a script of arbitrary edits to it.               *)
(***************************************************************************)
MaxScript == 2
Donor == DestBase + 1

\* the edits a consumer may hold: any action on any node of index_to_node
ApplyEdits ==
  {Edit(a, a, n) : a \in {"DELETE"}, n \in (1..MaxNodes) \cup {Donor}}
  \cup {[Edit("UPDATE", "UPDATE", n) EXCEPT !.new_node_id = Donor] :
          n \in (1..MaxNodes) \cup {Donor}}
  \cup {[Edit(a, a, n) EXCEPT !.parent_id = p, !.key_in_parent = k] :
          a \in {"INSERT", "MOVE"}, n \in (1..MaxNodes) \cup {Donor},
          p \in 1..(MaxNodes - 1), k \in {NoKey, "left", "right"}}

InitApply ==
  \E sv \in GeneralVectors :
    \E es \in UNION {[1..k -> ApplyEdits] : k \in 1..MaxScript} :
      /\ heap = [r \in Refs |->
                   CASE r = "in_source" -> TreeFrom(0, sv)
                     [] r \in {"in_mapping", "gen_mapping"} -> {}
                     [] OTHER -> EmptyTree]
      /\ source_tree = "in_source"
      /\ dest_tree = "in_dest"
      /\ index_mapping = "in_mapping"
      /\ source_to_dest = NoMap
      /\ dest_to_source = NoMap
      /\ var_renames_s_to_d = NoRenames
      /\ var_renames_d_to_s = NoRenames
      /\ edit_script = es
      /\ additional_nodes = [EmptyTree EXCEPT ![Donor] = ShallowNode("Name", "w", "Load")]
      /\ pc = "apply"
      /\ todo = <<>>
      /\ app_tree = IndexToNode(TreeFrom(0, sv), additional_nodes)
      /\ app_pos = 0
      /\ RuntimeIdle

SpecApply == InitApply /\ [][ApplyStep]_vars

(***************************************************************************)
(* RuntimeComparison.__init__, its order and compare_comparisons.          *)
(***************************************************************************)
\* a node sequence whose ops without entry get the same id on both sides
NodeSequenceOnePrefix(runtime_op_sequence, op_to_node, default_prefix) ==
  [k \in 1..Len(runtime_op_sequence) |->
     IF op_to_node[runtime_op_sequence[k].op_id] # NoNode
     THEN <<"node", op_to_node[runtime_op_sequence[k].op_id]>>
     ELSE <<"unmapped_op", runtime_op_sequence[k].op_id>>]

\* get_runtime_node_sequence: the node id of each op, or the string of the
\* pair (default_prefix, op_id) for an op without entry
GetRuntimeNodeSequence(runtime_op_sequence, op_to_node, default_prefix) ==
  [k \in 1..Len(runtime_op_sequence) |->
     IF op_to_node[runtime_op_sequence[k].op_id] # NoNode
     THEN <<"node", op_to_node[runtime_op_sequence[k].op_id]>>
     ELSE <<default_prefix, runtime_op_sequence[k].op_id>>]

\* SequenceMatcher.get_opcodes(): <<tag, i1, i2, j1, j2>> over the matching
\* blocks, the ranges counted from 0 and open at the end
RECURSIVE Opcodes(_, _, _, _, _)
Opcodes(blocks, i, j, la, lb) ==
  LET last == blocks = <<>>
      ai == IF last THEN la ELSE Head(blocks)[1] - 1
      bj == IF last THEN lb ELSE Head(blocks)[2] - 1
      size == IF last THEN 0 ELSE Head(blocks)[3]
      tag == IF i < ai /\ j < bj THEN "replace"
             ELSE IF i < ai THEN "delete"
             ELSE IF j < bj THEN "insert"
             ELSE ""
      gap == IF tag # "" THEN <<(<<tag, i, ai, j, bj>>)>> ELSE <<>>
      equal == IF size > 0 THEN <<(<<"equal", ai, ai + size, bj, bj + size>>)>> ELSE <<>>
  IN gap \o equal \o (IF last THEN <<>> ELSE Opcodes(Tail(blocks), ai + size, bj + size, la, lb))
GetOpcodes(a, b) == Opcodes(GetMatchingBlocks(a, b), 0, 0, Len(a), Len(b))

\* a value test that takes two empty lists for a match
ValuesEqual(source_vals, dest_vals) == source_vals = dest_vals

\* len(source_vals) > 0 and source_vals == dest_vals
ValuesMatch(source_vals, dest_vals) == Len(source_vals) > 0 /\ source_vals = dest_vals

\* the body of the loop over the index pairs of one equal block, from the
\* k-th pair on
RECURSIVE EqualPairs(_, _, _, _)
EqualPairs(c, t, op, k) ==
  IF op[2] + k >= op[3] THEN c
  ELSE LET s_i == op[2] + k
           d_i == op[4] + k
           source_vals == t.source_ops[s_i + 1].pushed_values
           dest_vals == t.dest_ops[d_i + 1].pushed_values
           hit == ValuesMatch(source_vals, dest_vals)
           c1 == [c EXCEPT
                    !.source_runtime_mapping_to_dest[s_i + 1] =
                       [is_mapped |-> TRUE, mapped_op_index |-> d_i,
                        value_matches |-> IF hit THEN TRUE ELSE @.value_matches],
                    !.dest_runtime_mapping_to_source[d_i + 1] =
                       [is_mapped |-> TRUE, mapped_op_index |-> s_i,
                        value_matches |-> IF hit THEN TRUE ELSE @.value_matches],
                    !.last_matching_val_source = IF hit THEN s_i ELSE @,
                    !.last_matching_val_dest = IF hit THEN d_i ELSE @]
       IN EqualPairs(c1, t, op, k + 1)

\* one opcode of runtime_diff
DiffOpcode(c, t, op) ==
  IF op[1] = "equal"
  THEN EqualPairs([c EXCEPT !.total_match_size = @ + (op[3] - op[2])], t, op, 0)
  ELSE c

\* the two traces of the comparison under construction, as node ids
SourceNodeTrace(t) == GetRuntimeNodeSequence(t.source_ops, t.source_op_to_node, "source")
DestNodeTrace(t) == GetRuntimeNodeSequence(t.dest_ops, t.dest_op_to_node, "dest")

\* what the tracer and the bytecode mapper return for the two versions
InitTrace ==
  /\ GeneratorIdle
  /\ pc = "new"
  /\ traces \in [source_ops : OpsLists, dest_ops : OpsLists,
                 source_op_to_node : OpToNodes, dest_op_to_node : OpToNodes,
                 run_outcome : RunOutcomes, eval_result : BOOLEAN]
  /\ self = NoComparison
  /\ runtime_diff = <<>>
  /\ orig_comps = <<>>
  /\ new_comps = <<>>
  /\ new_better = 0
  /\ new_worse = 0
  /\ same = 0
  /\ effect = ""
  /\ description = <<>>

\* RuntimeComparison.__init__ up to its loop
Construct ==
  /\ pc = "new"
  /\ runtime_diff' = GetOpcodes(SourceNodeTrace(traces), DestNodeTrace(traces))
  /\ self' = [run_completed |-> traces.run_outcome = "completed",
              test_passed |-> traces.eval_result,
              total_match_size |-> 0,
              last_matching_val_dest |-> 0,
              last_matching_val_source |-> 0,
              source_runtime_mapping_to_dest |->
                [k \in 1..Len(traces.source_ops) |-> RuntimeOpMappingData],
              dest_runtime_mapping_to_source |->
                [k \in 1..Len(traces.dest_ops) |-> RuntimeOpMappingData]]
  /\ pc' = IF runtime_diff' = <<>> THEN "constructed" ELSE "diff"
  /\ UNCHANGED <<gen_vars, traces, orig_comps, new_comps, new_better, new_worse, same,
                 effect, description>>

\* one iteration of the loop over runtime_diff
DiffStep ==
  /\ pc = "diff"
  /\ self' = DiffOpcode(self, traces, Head(runtime_diff))
  /\ runtime_diff' = Tail(runtime_diff)
  /\ pc' = IF Tail(runtime_diff) = <<>> THEN "constructed" ELSE "diff"
  /\ UNCHANGED <<gen_vars, traces, orig_comps, new_comps, new_better, new_worse, same,
                 effect, description>>

NextTrace ==
  \/ Construct
  \/ DiffStep

SpecTrace == InitTrace /\ [][NextTrace]_vars

\* the construction for a test that the source version passes, with traces
\* of up to LongTrace ops that all push one value
InitLongTrace ==
  /\ GeneratorIdle
  /\ pc = "new"
  /\ traces \in [source_ops : LongOpsLists, dest_ops : LongOpsLists,
                 source_op_to_node : OpToNodes, dest_op_to_node : OpToNodes,
                 run_outcome : {"completed"}, eval_result : {TRUE}]
  /\ self = NoComparison
  /\ runtime_diff = <<>>
  /\ orig_comps = <<>>
  /\ new_comps = <<>>
  /\ new_better = 0
  /\ new_worse = 0
  /\ same = 0
  /\ effect = ""
  /\ description = <<>>

SpecLongTrace == InitLongTrace /\ [][NextTrace]_vars

(***************************************************************************)
(* The order of RuntimeComparison, compare_comparisons and the             *)
(* descriptions.                                                           *)
(***************************************************************************)
\* an order that looks at the deviation point only
LtCursorOnly(a, other) == a.last_matching_val_dest < other.last_matching_val_dest

\* RuntimeComparison.__lt__
Lt(a, other) ==
  IF other.run_completed /\ ~a.run_completed THEN TRUE
  ELSE IF a.run_completed /\ ~other.run_completed THEN FALSE
  ELSE IF other.test_passed /\ ~a.test_passed THEN TRUE
  ELSE IF a.test_passed /\ ~other.test_passed THEN FALSE
  ELSE IF a.test_passed /\ other.test_passed THEN FALSE
  ELSE a.last_matching_val_dest < other.last_matching_val_dest

\* an equality that holds between passing comparisons only
EqPassedOnly(a, other) == other.test_passed /\ a.test_passed

\* RuntimeComparison.__eq__
Eq(a, other) ==
  \/ other.test_passed /\ a.test_passed
  \/ /\ other.run_completed = a.run_completed
     /\ other.test_passed = a.test_passed
     /\ other.last_matching_val_dest = a.last_matching_val_dest

\* a description that does not look at the deviation point
DescribeImprovementNoCursor(a, other) ==
  IF a.run_completed /\ ~other.run_completed THEN "The run completed"
  ELSE IF a.test_passed /\ ~other.test_passed THEN "The test passed"
  ELSE "None"

\* describe_improvement: which of its three texts it returns, or None
DescribeImprovement(a, other) ==
  IF a.run_completed /\ ~other.run_completed THEN "The run completed"
  ELSE IF a.test_passed /\ ~other.test_passed THEN "The test passed"
  ELSE IF a.last_matching_val_dest > other.last_matching_val_dest
       THEN "The following expression evaluated correctly"
  ELSE "None"

\* str + the result of describe_improvement
Concat(text, improvement) ==
  IF improvement = "None" THEN <<"TypeError">> ELSE <<text, improvement>>

\* describe_improvement_or_regression
DescribeImprovementOrRegression(a, new_version) ==
  IF Eq(a, new_version) THEN <<"performed the same">>
  ELSE IF Lt(a, new_version)
       THEN Concat("performed better", DescribeImprovement(new_version, a))
  ELSE Concat("performed worse", DescribeImprovement(a, new_version))

\* a result that is never SAME
EffectNoSame(better, worse) ==
  IF worse = 0 THEN "BETTER" ELSE IF better = 0 THEN "WORSE" ELSE "MIXED"

\* the result of compare_comparisons for its two counters
Effect(better, worse) ==
  IF better + worse = 0 THEN "SAME"
  ELSE IF worse = 0 THEN "BETTER"
  ELSE IF better = 0 THEN "WORSE"
  ELSE "MIXED"

\* zip(orig_comps, new_comps): the number of pairs
ZipLen == IF Len(orig_comps) < Len(new_comps) THEN Len(orig_comps) ELSE Len(new_comps)
\* the pairs the loop of compare_comparisons has visited
Visited == new_better + new_worse + same

\* the lists of comparisons of the old and the new version of the code
InitOrder ==
  /\ GeneratorIdle
  /\ pc = "compare"
  /\ traces = NoTraces
  /\ self = NoComparison
  /\ runtime_diff = <<>>
  /\ orig_comps \in ComparisonLists
  /\ new_comps \in ComparisonLists
  /\ new_better = 0
  /\ new_worse = 0
  /\ same = 0
  /\ effect = ""
  /\ description = <<>>

\* one iteration of the loop of compare_comparisons
CompareStep ==
  /\ pc = "compare"
  /\ Visited < ZipLen
  /\ LET o_c == orig_comps[Visited + 1]
         n_c == new_comps[Visited + 1]
     IN IF Lt(o_c, n_c)
        THEN new_better' = new_better + 1 /\ UNCHANGED <<new_worse, same>>
        ELSE IF Lt(n_c, o_c)
             THEN new_worse' = new_worse + 1 /\ UNCHANGED <<new_better, same>>
        ELSE same' = same + 1 /\ UNCHANGED <<new_better, new_worse>>
  /\ UNCHANGED <<gen_vars, pc, traces, self, runtime_diff, orig_comps, new_comps,
                 effect, description>>

\* the return of compare_comparisons
CompareReturn ==
  /\ pc = "compare"
  /\ Visited = ZipLen
  /\ effect' = Effect(new_better, new_worse)
  /\ pc' = "compared"
  /\ UNCHANGED <<gen_vars, traces, self, runtime_diff, orig_comps, new_comps,
                 new_better, new_worse, same, description>>

\* the caller describes the next pair: o_c.describe_improvement_or_regression(n_c)
DescribeStep ==
  /\ pc = "compared"
  /\ Len(description) < ZipLen
  /\ description' = Append(description,
                           DescribeImprovementOrRegression(orig_comps[Len(description) + 1],
                                                           new_comps[Len(description) + 1]))
  /\ UNCHANGED <<gen_vars, pc, traces, self, runtime_diff, orig_comps, new_comps,
                 new_better, new_worse, same, effect>>

NextOrder ==
  \/ CompareStep
  \/ CompareReturn
  \/ DescribeStep

SpecOrder == InitOrder /\ [][NextOrder]_vars

(***************************************************************************)
(* Properties.                                                             *)
(***************************************************************************)
WorkTree == heap[source_tree]
\* the nodes reached from n by child links (n included)
RECURSIVE Reach(_, _, _)
Reach(T, frontier, seen) ==
  IF frontier = {} THEN seen
  ELSE LET found == UNION {SeqToSet(Children(T, n)) : n \in frontier} \ seen
       IN Reach(T, found, seen \cup found)
Below(T, n) == Reach(T, {n}, {n})
ScriptHas(P(_)) == \E i \in 1..Len(edit_script) : P(edit_script[i])

\* C1 (Fidelity): once a consumer has applied every edit of the returned
\* script with apply_edit to a fresh clone of source, the printable form of
\* its tree is that of dest (and no edit of the script fails to apply).
C1_Fidelity ==
  pc \in {"applied", "forbidden", "error"} =>
    /\ pc = "applied"
    /\ Printable(app_tree, SourceRoot) = Printable(heap["in_dest"], DestRoot)

\* C2: when the DELETE stage has finished, the working source tree prints as
\* the dest tree, so the final check does not raise.
C2_ConsistencyCheckPasses ==
  /\ pc = "verify" => ~TreesDiffer
  /\ pc # "raised"

PhaseRank(stage) ==
  CASE stage \in {"UPDATE", "ALIGN_KEYS", "ALIGN"} -> 1
    [] stage = "INSERT" -> 2
    [] stage = "MOVE" -> 3
    [] stage = "DELETE" -> 4

C4_RenameSymmetry ==
  pc = "returned" =>
    \A s \in Idents :
      var_renames_s_to_d[s] # "" => var_renames_d_to_s[var_renames_s_to_d[s]] = s

\* C5 (Temporary-key resolution): once the DELETE stage has finished no node
\* of the working source tree is under a sentinel key old_<k>.
C5_NoSentinelKeyLeft ==
  pc \in {"verify", "returned", "raised"} =>
    \A n \in Below(WorkTree, SourceRoot) : ~IsSentinel(WorkTree[n].key)

\* the DELETE stage has finished; a node that was displaced is still in the
\* tree, and an edit of the script took a node out of its sentinel key
C5_Witness ==
  /\ pc = "verify"
  /\ \E n \in Below(WorkTree, SourceRoot) : WorkTree[n].displaced_by # NoNode
  /\ ScriptHas(LAMBDA e : e.is_fix_temp_key)

\* C6 (Leaf-only INSERT/DELETE): a node inserted by the INSERT stage has no
\* children when it is inserted, and a node removed by the DELETE stage has
\* no children when it is removed.
C6_LeafOnlyInsertDelete ==
  [][/\ (pc = "insert" /\ dest_to_source[Head(todo)] = NoNode) =>
          Children(heap'[source_tree'], Head(todo)) = <<>>
     /\ (pc = "delete" /\ source_to_dest[Head(todo)] = NoNode) =>
          Children(WorkTree, Head(todo)) = <<>>]_vars

\* the DELETE stage is about to remove a node that had children in the
\* caller's source tree, after at least one insertion
C6_Witness ==
  /\ pc = "delete"
  /\ source_to_dest[Head(todo)] = NoNode
  /\ Children(heap["in_source"], Head(todo)) # <<>>
  /\ ScriptHas(LAMBDA e : e.stage = "INSERT")

\* C7 (Donor closure): every UPDATE edit of the script names, as new_node_id,
\* a key of additional_nodes, and every INSERT edit names one as node_id.
C7_DonorClosure ==
  \A i \in 1..Len(edit_script) :
    LET e == edit_script[i]
    IN /\ e.action = "UPDATE" => additional_nodes[e.new_node_id].kind # "none"
       /\ e.action = "INSERT" => additional_nodes[e.node_id].kind # "none"

\* a returned script with an UPDATE and an INSERT edit
C7_Witness ==
  /\ pc = "returned"
  /\ ScriptHas(LAMBDA e : e.action = "UPDATE")
  /\ ScriptHas(LAMBDA e : e.action = "INSERT")

\* C8 (Private-clone discipline): no step changes the caller's source tree,
\* dest tree or mapping set, and the donors are fresh nodes that carry no
\* link into a tree.
C8_PrivateClones ==
  /\ [][\A r \in CallerRefs : heap'[r] = heap[r]]_vars
  /\ [](\A n \in Ids :
          /\ additional_nodes[n].parent = NoNode
          /\ additional_nodes[n].slots = EmptySlots
          /\ additional_nodes[n].kids = <<>>)

\* the script was returned after every kind of mutation: the working source
\* tree and mapping differ from the caller's, and a donor is the copy of a
\* dest node that has a parent
C8_Witness ==
  /\ pc = "returned"
  /\ heap[source_tree] # heap["in_source"]
  /\ heap[index_mapping] # heap["in_mapping"]
  /\ \A a \in Actions : ScriptHas(LAMBDA e : e.action = a)
  /\ \E n \in Ids : additional_nodes[n].kind # "none" /\ heap["in_dest"][n].parent # NoNode

\* C9: after apply_edit has applied an UPDATE edit, the subject node has the
\* kind and name of the donor that new_node_id names.
C9_UpdateAdoptsDonor ==
  (pc \in {"apply", "applied"} /\ app_pos > 0 /\ edit_script[app_pos].action = "UPDATE") =>
    NodeName(app_tree, edit_script[app_pos].node_id)
      = NodeName(additional_nodes, edit_script[app_pos].new_node_id)

\* the edit that the consumer applies next, and the one it applied last
NextEdit == edit_script[app_pos + 1]
LastEdit == edit_script[app_pos]
HasChildren(A, n) == Known(A, n) /\ Children(A, n) # <<>>
\* the child and parent links of a tree agree and no node is below itself
WellFormedTree(A) ==
  \A n \in Ids : \A i \in 1..Len(Children(A, n)) :
    LET c == Children(A, n)[i]
    IN /\ Known(A, n) /\ Known(A, c)
       /\ A[c].parent = n
       /\ IF IsListNode(A, n)
          THEN A[c].key = ListKey /\ \A j \in 1..Len(A[n].kids) : A[n].kids[j] = c => j = i
          ELSE A[c].key \in NodeFields(A, n) /\ A[n].slots[A[c].key] = c
       /\ n \notin Below(A, c)
\* a MOVE edit that fits the tree: the subject has a parent and goes below a
\* known node outside its own subtree, at a key that this node has
WellFormedMove(A, e) ==
  /\ A[e.node_id].parent # NoNode
  /\ Known(A, e.parent_id)
  /\ e.parent_id \notin Below(A, e.node_id)
  /\ IF IsListNode(A, e.parent_id) THEN e.key_in_parent = NoKey
     ELSE e.key_in_parent \in NodeFields(A, e.parent_id)

\* C10 (Forbidden-edit): on a well-formed tree, apply_edit of an INSERT or
\* DELETE edit on a node with children raises ForbiddenEditException and
\* leaves the tree as it was; apply_edit of a MOVE edit on a node with
\* children never raises it, and a MOVE that fits the tree succeeds: the node
\* is below parent_id with the children it had, and no node of its subtree
\* has changed.
C10_ForbiddenEdit ==
  [][(pc = "apply" /\ WellFormedTree(app_tree) /\ HasChildren(app_tree, NextEdit.node_id)) =>
       /\ NextEdit.action \in {"INSERT", "DELETE"} =>
            pc' = "forbidden" /\ app_tree' = app_tree
       /\ NextEdit.action = "MOVE" =>
            /\ pc' # "forbidden"
            /\ WellFormedMove(app_tree, NextEdit) =>
                 /\ pc' \in {"apply", "applied"}
                 /\ app_tree'[NextEdit.node_id].parent = NextEdit.parent_id
                 /\ Children(app_tree', NextEdit.node_id)
                      = Children(app_tree, NextEdit.node_id)
                 /\ \A d \in Below(app_tree, NextEdit.node_id) \ {NextEdit.node_id} :
                      app_tree'[d] = app_tree[d]]_vars

\* a MOVE that fits the tree carried a node with its child to another key, and
\* the DELETE of that node that followed was refused
C10_Witness ==
  LET first == IndexToNode(heap["in_source"], additional_nodes)
  IN /\ pc = "forbidden"
     /\ app_pos = 2
     /\ edit_script[1].action = "MOVE"
     /\ WellFormedMove(first, edit_script[1])
     /\ HasChildren(first, edit_script[1].node_id)
     /\ LastEdit.action = "DELETE"
     /\ LastEdit.node_id = edit_script[1].node_id
     /\ app_tree[LastEdit.node_id].key # first[LastEdit.node_id].key
     /\ WellFormedTree(app_tree)

\* the aligned index pairs of the comparison, and those whose values match
AlignedPairs ==
  {<<s_i, self.source_runtime_mapping_to_dest[s_i + 1].mapped_op_index>> :
     s_i \in {k \in 0..(Len(self.source_runtime_mapping_to_dest) - 1) :
                self.source_runtime_mapping_to_dest[k + 1].is_mapped}}
ValuePairs == {q \in AlignedPairs : self.source_runtime_mapping_to_dest[q[1] + 1].value_matches}

\* C14: once a RuntimeComparison is constructed, value_matches is true, on
\* both sides, exactly for the aligned pairs whose two ops pushed the same
\* non-empty list of values, and the cursor (last_matching_val_source,
\* last_matching_val_dest) is the greatest of these pairs, or (0, 0) when
\* there is none.
C14_LastMatchingCursor ==
  pc = "constructed" =>
    /\ \A q \in AlignedPairs :
         LET sv == traces.source_ops[q[1] + 1].pushed_values
             dv == traces.dest_ops[q[2] + 1].pushed_values
         IN /\ self.source_runtime_mapping_to_dest[q[1] + 1].value_matches
                 = (sv # <<>> /\ sv = dv)
            /\ self.dest_runtime_mapping_to_source[q[2] + 1].value_matches
                 = (sv # <<>> /\ sv = dv)
    /\ \A k \in 1..Len(self.source_runtime_mapping_to_dest) :
         self.source_runtime_mapping_to_dest[k].value_matches
           => self.source_runtime_mapping_to_dest[k].is_mapped
    /\ \A k \in 1..Len(self.dest_runtime_mapping_to_source) :
         self.dest_runtime_mapping_to_source[k].value_matches
           => self.dest_runtime_mapping_to_source[k].is_mapped
    /\ IF ValuePairs = {}
       THEN self.last_matching_val_source = 0 /\ self.last_matching_val_dest = 0
       ELSE /\ <<self.last_matching_val_source, self.last_matching_val_dest>> \in ValuePairs
            /\ \A q \in ValuePairs : /\ q[1] <= self.last_matching_val_source
                                     /\ q[2] <= self.last_matching_val_dest

\* a comparison with two aligned pairs, of which only the second matches by
\* value
C14_Witness ==
  /\ pc = "constructed"
  /\ self.total_match_size = 2
  /\ ~self.source_runtime_mapping_to_dest[1].value_matches
  /\ self.last_matching_val_source = 1
  /\ self.last_matching_val_dest = 1

\* C15: every pair of ops that the comparison aligns (is_mapped, on either
\* side) joins two ops that both have an entry in their side's op-to-node
\* mapping, and the two entries are the same node id.
C15_UnmappedOpsNeverAligned ==
  /\ \A k \in 1..Len(self.source_runtime_mapping_to_dest) :
       LET m == self.source_runtime_mapping_to_dest[k]
       IN m.is_mapped =>
            LET sn == traces.source_op_to_node[traces.source_ops[k].op_id]
                dn == traces.dest_op_to_node[traces.dest_ops[m.mapped_op_index + 1].op_id]
            IN sn # NoNode /\ dn # NoNode /\ sn = dn
  /\ \A k \in 1..Len(self.dest_runtime_mapping_to_source) :
       LET m == self.dest_runtime_mapping_to_source[k]
       IN m.is_mapped =>
            LET dn == traces.dest_op_to_node[traces.dest_ops[k].op_id]
                sn == traces.source_op_to_node[traces.source_ops[m.mapped_op_index + 1].op_id]
            IN sn # NoNode /\ dn # NoNode /\ sn = dn

\* a constructed comparison that aligned a pair of ops although an op without
\* entry was executed on each side, both with the same op id
C15_Witness ==
  /\ pc = "constructed"
  /\ self.total_match_size > 0
  /\ \E i \in 1..Len(traces.source_ops), j \in 1..Len(traces.dest_ops) :
       /\ traces.source_ops[i].op_id = traces.dest_ops[j].op_id
       /\ traces.source_op_to_node[traces.source_ops[i].op_id] = NoNode
       /\ traces.dest_op_to_node[traces.dest_ops[j].op_id] = NoNode

\* the comparisons given to compare_comparisons
Compared == {orig_comps[k] : k \in 1..Len(orig_comps)} \cup {new_comps[k] : k \in 1..Len(new_comps)}
\* the number of the three relations a < b, a == b, b < a that hold
Relations(a, b) ==
  (IF Lt(a, b) THEN 1 ELSE 0) + (IF Eq(a, b) THEN 1 ELSE 0) + (IF Lt(b, a) THEN 1 ELSE 0)

\* C11: the order of RuntimeComparison is total: of any two comparisons a and
\* b given to compare_comparisons, exactly one of a < b, a == b and b < a
\* holds, and < is transitive.
C11_TotalOrder ==
  pc = "compared" =>
    /\ \A a \in Compared, b \in Compared : Relations(a, b) = 1
    /\ \A a \in Compared, b \in Compared, c \in Compared : Lt(a, b) /\ Lt(b, c) => Lt(a, c)

\* the lexicographic rule of the order
LexLess(a, b) ==
  \/ ~a.run_completed /\ b.run_completed
  \/ a.run_completed = b.run_completed /\ ~a.test_passed /\ b.test_passed
  \/ /\ a.run_completed = b.run_completed
     /\ ~a.test_passed /\ ~b.test_passed
     /\ a.last_matching_val_dest < b.last_matching_val_dest

\* C12: a < b holds exactly when a did not complete and b did, or completion
\* is equal, a did not pass and b did, or completion is equal, neither passed
\* and the deviation point of a is before that of b; the counters of
\* compare_comparisons, which asks o_c < n_c and then n_c < o_c, count the
\* visited pairs by this rule.
C12_LexicographicRule ==
  /\ \A a \in Compared, b \in Compared : Lt(a, b) <=> LexLess(a, b)
  /\ new_better = Cardinality({k \in 1..Visited : LexLess(orig_comps[k], new_comps[k])})
  /\ new_worse = Cardinality({k \in 1..Visited : /\ ~LexLess(orig_comps[k], new_comps[k])
                                                  /\ LexLess(new_comps[k], orig_comps[k])})

\* compare_comparisons counted a pair as better by the deviation point alone,
\* and a pair as worse by completion although the old comparison has the
\* later deviation point
C12_Witness ==
  /\ pc = "compared"
  /\ ZipLen = 2
  /\ new_better = 1
  /\ new_worse = 1
  /\ orig_comps[1].run_completed = new_comps[1].run_completed
  /\ ~orig_comps[1].test_passed /\ ~new_comps[1].test_passed
  /\ orig_comps[1].last_matching_val_dest < new_comps[1].last_matching_val_dest
  /\ orig_comps[2].run_completed /\ ~new_comps[2].run_completed
  /\ orig_comps[2].last_matching_val_dest < new_comps[2].last_matching_val_dest

\* C13: compare_comparisons returns SAME when no pair of an old and a new
\* comparison differs in the order, BETTER when some new comparison is
\* greater than its old one and none is smaller, WORSE when some is smaller
\* and none is greater, MIXED when both occur.
C13_CompareComparisons ==
  pc = "compared" =>
    LET greater == \E k \in 1..ZipLen : Lt(orig_comps[k], new_comps[k])
        smaller == \E k \in 1..ZipLen : Lt(new_comps[k], orig_comps[k])
    IN /\ effect = "SAME" <=> ~greater /\ ~smaller
       /\ effect = "BETTER" <=> greater /\ ~smaller
       /\ effect = "WORSE" <=> smaller /\ ~greater
       /\ effect = "MIXED" <=> greater /\ smaller

\* compare_comparisons returned MIXED: of two pairs, one got better and one
\* got worse
C13_Witness ==
  /\ pc = "compared"
  /\ effect = "MIXED"
  /\ new_better = 1
  /\ new_worse = 1

\* C16: describe_improvement_or_regression returns the 'performed the same'
\* description for a comparison and itself, and for two comparisons that
\* agree in run_completed, test_passed and last_matching_val_dest.
C16_SameDescription ==
  \A k \in 1..Len(description) :
    ( /\ orig_comps[k].run_completed = new_comps[k].run_completed
      /\ orig_comps[k].test_passed = new_comps[k].test_passed
      /\ orig_comps[k].last_matching_val_dest = new_comps[k].last_matching_val_dest )
    => description[k] = <<"performed the same">>

\* the description of a failing comparison and itself, and of two failing
\* comparisons with the same three keys and different run outcomes
C16_Witness ==
  /\ Len(description) = 2
  /\ orig_comps[1] = new_comps[1]
  /\ ~orig_comps[1].test_passed
  /\ orig_comps[2].run_status # new_comps[2].run_status
  /\ ~orig_comps[2].run_completed /\ ~new_comps[2].run_completed
  /\ ~orig_comps[2].test_passed /\ ~new_comps[2].test_passed
  /\ orig_comps[2].last_matching_val_dest = new_comps[2].last_matching_val_dest
  /\ description[1] = <<"performed the same">>
  /\ description[2] = <<"performed the same">>

\* the locals of generate_edit_script with the working tree of the next state
LocalsAfter == [Locals EXCEPT !.T = heap'[source_tree']]
\* the walk is at the list node s, which is corresponded to a dest node
AlignsList(s) ==
  /\ pc = "walk"
  /\ s = Head(todo)
  /\ source_to_dest[s] # NoNode
  /\ IsListNode(WorkTree, s)
AlignEdits(script) == SelectSeq(script, LAMBDA e : e.stage = "ALIGN")

\* C18: after the ALIGN step on a list node s corresponded to d, the children
\* of s that are corresponded to children of d are in the order of their
\* correspondents under d.
C18_AlignOrder ==
  [][\A s \in SourceIds :
       AlignsList(s) =>
         MappedSourceOrder(LocalsAfter, s, source_to_dest[s])
           = MappedDestOrder(LocalsAfter, s, source_to_dest[s])]_vars

\* the length of a longest common subsequence of a and b
RECURSIVE LcsLen(_, _)
LcsLen(a, b) ==
  IF a = <<>> \/ b = <<>> THEN 0
  ELSE IF Head(a) = Head(b) THEN 1 + LcsLen(Tail(a), Tail(b))
  ELSE LET x == LcsLen(Tail(a), b)
           y == LcsLen(a, Tail(b))
       IN IF x > y THEN x ELSE y

\* C19: the ALIGN step on a list node emits as many ALIGN-stage MOVE edits as
\* the dest-derived order B has members outside a longest common subsequence
\* of the source order A and B: |B| minus the LCS length of A and B.
C19_AlignKeepsLCS ==
  [][\A s \in SourceIds :
       AlignsList(s) =>
         LET A == MappedSourceOrder(Locals, s, source_to_dest[s])
             B == MappedDestOrder(Locals, s, source_to_dest[s])
         IN Len(AlignEdits(edit_script')) - Len(AlignEdits(edit_script))
              = Len(B) - LcsLen(A, B)]_vars

\* how often n is held as a child by the nodes of T that are reached from
\* the root
Occurrences(T, n) ==
  Cardinality({q \in Below(T, SourceRoot) \X (1..(Len(KeyOrder) + MaxTree)) :
                 /\ q[2] <= Len(Children(T, q[1]))
                 /\ Children(T, q[1])[q[2]] = n})
InsertsOf(n) == {i \in 1..Len(edit_script) : /\ edit_script[i].action = "INSERT"
                                             /\ edit_script[i].node_id = n}
GeneratorRuns == pc \in {"walk", "insert", "move", "delete", "verify", "returned", "raised"}

\* C17 (Identity preservation): at the end of generate_edit_script every node
\* of the working tree has an id of the input source tree, or the id of a dest
\* node that the input mapping does not mention and that exactly one INSERT
\* edit introduced; at every step of the generator no node of the working
\* tree is held twice as a child.
C17_IdentityPreservation ==
  /\ pc \in {"verify", "returned", "raised"} =>
       \A n \in Below(WorkTree, SourceRoot) :
         \/ n \in SourceIds /\ heap["in_source"][n].kind # "none"
         \/ /\ n \in DestIds
            /\ heap["in_dest"][n].kind # "none"
            /\ \A q \in heap["in_mapping"] : q[2] # n
            /\ Cardinality(InsertsOf(n)) = 1
  /\ GeneratorRuns =>
       /\ Occurrences(WorkTree, SourceRoot) = 0
       /\ \A n \in Below(WorkTree, SourceRoot) \ {SourceRoot} : Occurrences(WorkTree, n) = 1

\* the generator returned a tree that holds a node of the source tree next
\* to an inserted node, after it moved one node and deleted another
C17_Witness ==
  /\ pc = "returned"
  /\ \E n \in Below(WorkTree, SourceRoot) \ {SourceRoot} : n \in SourceIds
  /\ \E n \in Below(WorkTree, SourceRoot) : n \in DestIds
  /\ ScriptHas(LAMBDA e : e.stage = "MOVE")
  /\ ScriptHas(LAMBDA e : e.stage = "DELETE")

\* the nodes that the generator has under the key of parent p: placed there
\* and neither re-placed nor deleted since
Keyed(T, p, key) ==
  {n \in Ids : /\ T[n].kind # "none"
               /\ T[n].parent = p
               /\ T[n].key = key
               /\ ~ScriptHas(LAMBDA e : e.action = "DELETE" /\ e.node_id = n)}

\* C20 (Temporary-key invariant): at every step of the generator, a node
\* under a sentinel key old_<k> has a sibling in slot k whose id is the
\* node's displaced_by, and no parent has two children under the same
\* sentinel key.
C20_TemporaryKeyInvariant ==
  GeneratorRuns =>
    \A p \in Below(WorkTree, SourceRoot), key \in SentinelKeys :
      /\ Cardinality(Keyed(WorkTree, p, key)) <= 1
      /\ \A n \in Keyed(WorkTree, p, key) :
           /\ WorkTree[p].slots[key] = n
           /\ Old(WorkTree[n].orig_key) = key
           /\ WorkTree[n].displaced_by # NoNode
           /\ WorkTree[p].slots[WorkTree[n].orig_key] = WorkTree[n].displaced_by

\* the generator is in its MOVE stage after an ALIGN_KEYS move, and a node of
\* the working tree is under a sentinel key, displaced by an inserted node
C20_Witness ==
  /\ pc = "move"
  /\ ScriptHas(LAMBDA e : e.stage = "ALIGN_KEYS")
  /\ \E p \in Below(WorkTree, SourceRoot), key \in SentinelKeys :
       \E n \in Keyed(WorkTree, p, key) : WorkTree[n].displaced_by \in DestIds

\* the input trees and mapping of the caller
InSource == heap["in_source"]
InDest == heap["in_dest"]
InMapping == heap["in_mapping"]
\* a and b are corresponded children of the keyed node p, which is
\* corresponded to the dest parent, and exchange their slots k1 and k2
\* between source and dest; a is the one the walk visits first
KeySwap(p, a, b, k1, k2) ==
  /\ k1 # k2
  /\ IndexOf(KeyOrder, k1) < IndexOf(KeyOrder, k2)
  /\ InSource[p].kind # "none"
  /\ InSource[p].slots[k1] = a
  /\ InSource[p].slots[k2] = b
  /\ a # NoNode /\ b # NoNode
  /\ \E dp \in DestIds :
       /\ <<p, dp>> \in InMapping
       /\ InDest[dp].slots[k1] # NoNode /\ <<b, InDest[dp].slots[k1]>> \in InMapping
       /\ InDest[dp].slots[k2] # NoNode /\ <<a, InDest[dp].slots[k2]>> \in InMapping
\* the ALIGN_KEYS edits of the script for the children of p
AlignKeysEdits(p) ==
  SelectSeq(edit_script, LAMBDA e : e.stage = "ALIGN_KEYS" /\ e.parent_id = p)
AlignKeysMove(n, p, k) ==
  [Edit("MOVE", "ALIGN_KEYS", n) EXCEPT !.parent_id = p, !.key_in_parent = k]

\* C21 (Key swap): when two corresponded children a and b of a keyed parent
\* p, itself corresponded to the dest parent, exchange slots between source
\* and dest, the ALIGN_KEYS stage emits exactly two MOVE edits for them: once
\* the first is emitted, b is under the sentinel key of its slot, displaced by
\* a; the second takes b out of the sentinel key; from then on a and b are in
\* their dest slots.
C21_KeySwap ==
  \A p \in SourceIds, k1 \in FieldKeys, k2 \in FieldKeys :
    LET a == InSource[p].slots[k1]
        b == InSource[p].slots[k2]
    IN KeySwap(p, a, b, k1, k2) =>
      /\ (pc = "walk" /\ Head(todo) = b) =>
           /\ AlignKeysEdits(p) = <<AlignKeysMove(a, p, k2)>>
           /\ WorkTree[p].slots[k2] = a
           /\ WorkTree[p].slots[Old(k2)] = b
           /\ WorkTree[b].key = Old(k2)
           /\ WorkTree[b].displaced_by = a
      /\ pc \in {"insert", "move", "delete", "verify", "returned", "raised"} =>
           /\ AlignKeysEdits(p) = <<AlignKeysMove(a, p, k2), AlignKeysMove(b, p, k1)>>
           /\ WorkTree[p].slots[k2] = a /\ WorkTree[a].key = k2
           /\ WorkTree[p].slots[k1] = b /\ WorkTree[b].key = k1
           /\ \A k \in SentinelKeys : WorkTree[p].slots[k] = NoNode

\* the generator returned after a key swap
C21_Witness ==
  /\ pc = "returned"
  /\ \E p \in SourceIds, k1 \in FieldKeys, k2 \in FieldKeys :
       KeySwap(p, InSource[p].slots[k1], InSource[p].slots[k2], k1, k2)

\* every corresponded node is under the correspondent of its dest parent, and
\* held by it
ParentsMirrorDest ==
  \A d \in DestIds :
    (heap[dest_tree][d].kind # "none" /\ heap[dest_tree][d].parent # NoNode) =>
      LET s == dest_to_source[d]
          sp == dest_to_source[heap[dest_tree][d].parent]
      IN /\ s # NoNode /\ sp # NoNode
         /\ WorkTree[s].parent = sp
         /\ s \in SeqToSet(Children(WorkTree, sp))
AfterMoveStage == pc \in {"delete", "verify", "returned", "raised"}

\* C22: after the MOVE stage the source node corresponded to a non-root dest
\* node d is a child of the source node corresponded to the parent of d; the
\* MOVE stage emits an edit for a node exactly when, at the visit of d in
\* breadth-first order, the parent of the node was another one.
C22_MoveStage ==
  [][/\ AfterMoveStage' => ParentsMirrorDest'
     /\ \A d \in DestIds :
          (pc = "move" /\ d = Head(todo)) =>
             LET s == dest_to_source[d]
                 moved == /\ heap[dest_tree][d].parent # NoNode
                          /\ WorkTree[s].parent # dest_to_source[heap[dest_tree][d].parent]
             IN IF moved
                THEN /\ Len(edit_script') = Len(edit_script) + 1
                     /\ SubSeq(edit_script', 1, Len(edit_script)) = edit_script
                     /\ edit_script'[Len(edit_script')].stage = "MOVE"
                     /\ edit_script'[Len(edit_script')].action = "MOVE"
                     /\ edit_script'[Len(edit_script')].node_id = s
                ELSE edit_script' = edit_script]_vars

\* the MOVE stage has ended after it moved a corresponded node of the source
\* tree and left another one where it was
C22_Witness ==
  /\ pc = "delete"
  /\ ScriptHas(LAMBDA e : e.stage = "MOVE" /\ e.node_id \in SourceIds)
  /\ \E n \in SourceIds \ {SourceRoot} :
       /\ source_to_dest[n] # NoNode
       /\ ~ScriptHas(LAMBDA e : e.stage = "MOVE" /\ e.node_id = n)

\* the nodes the generator has in its working tree: created and not deleted
Live == {n \in Ids : /\ WorkTree[n].kind # "none"
                     /\ ~ScriptHas(LAMBDA e : e.action = "DELETE" /\ e.node_id = n)}
\* the working tree is one rooted tree: every live node is reached from the
\* root, and is held as a child once (the root: never)
RootedTree ==
  /\ Live \subseteq Below(WorkTree, SourceRoot)
  /\ Occurrences(WorkTree, SourceRoot) = 0
  /\ \A n \in Live \ {SourceRoot} : Occurrences(WorkTree, n) = 1

\* C23: through the MOVE stage the working tree stays one rooted tree: the
\* new parent of a node that the stage re-parents is neither the node nor one
\* of its descendants, and after each iteration every node of the working
\* tree is reached from the root and is held by one parent.
C23_OneRootedTree ==
  [][pc = "move" =>
       /\ \A d \in DestIds :
            (/\ d = Head(todo)
             /\ heap[dest_tree][d].parent # NoNode
             /\ WorkTree[dest_to_source[d]].parent
                  # dest_to_source[heap[dest_tree][d].parent]) =>
               dest_to_source[heap[dest_tree][d].parent]
                 \notin Below(WorkTree, dest_to_source[d])
       /\ RootedTree']_vars

\* the MOVE stage has ended, and it inverted two nodes of the source tree:
\* b was below a, now a is below b
C23_Witness ==
  /\ pc = "delete"
  /\ \E a \in SourceIds, b \in SourceIds :
       /\ a # b
       /\ b \in Below(InSource, a)
       /\ a \in Below(WorkTree, b)
       /\ b \in Below(WorkTree, SourceRoot)

\* the dest nodes that the input mapping does not mention, in breadth-first
\* order of the dest tree
AbsentFromMapping ==
  SelectSeq(BreadthFirst(InDest, DestRoot), LAMBDA d : \A q \in InMapping : q[2] # d)
InsertEdits == SelectSeq(edit_script, LAMBDA e : e.stage = "INSERT")

\* C24: the INSERT stage emits one INSERT edit per dest node that the input
\* mapping does not mention, in breadth-first order of the dest tree; when an
\* INSERT is applied, its parent_id names a node that is reached from the
\* root of the working tree and that is corresponded by the input mapping or
\* was inserted earlier in the stage.
C24_InsertStage ==
  [][pc = "insert" =>
       /\ \A d \in DestIds :
            d = Head(todo) =>
              IF dest_to_source[d] = NoNode
              THEN /\ Len(edit_script') = Len(edit_script) + 1
                   /\ SubSeq(edit_script', 1, Len(edit_script)) = edit_script
                   /\ LET e == edit_script'[Len(edit_script')]
                      IN /\ e.action = "INSERT" /\ e.stage = "INSERT" /\ e.node_id = d
                         /\ e.parent_id \in Below(WorkTree, SourceRoot)
                         /\ \/ \E q \in InMapping : q[1] = e.parent_id
                            \/ \E i \in 1..Len(InsertEdits) : InsertEdits[i].node_id = e.parent_id
                         /\ d \in SeqToSet(Children(heap'[source_tree'], e.parent_id))
              ELSE edit_script' = edit_script
       /\ pc' = "move" =>
            [i \in 1..Len(InsertEdits') |-> InsertEdits'[i].node_id] = AbsentFromMapping]_vars

\* the INSERT stage has ended after it inserted a node under a node it had
\* inserted before
C24_Witness ==
  /\ pc = "move"
  /\ \E i \in 1..Len(InsertEdits), j \in 1..Len(InsertEdits) :
       i < j /\ InsertEdits[j].parent_id = InsertEdits[i].node_id

\* this step of the INSERT or MOVE stage places the node s, the correspondent
\* of the dest node d, under a keyed parent
PlacesAtKey(d, s) ==
  /\ pc \in {"insert", "move"}
  /\ d = Head(todo)
  /\ s = dest_to_source'[d]
  /\ Len(edit_script') = Len(edit_script) + 1
  /\ ~IsListNode(WorkTree, edit_script'[Len(edit_script')].parent_id)
\* the key_in_parent and the parent that s has when it is placed
KeyBefore(s) == IF pc = "insert" THEN NoKey ELSE WorkTree[s].key
ParentBefore(s) == IF pc = "insert" THEN NoNode ELSE WorkTree[s].parent

\* C25: an edit that places a node under a keyed parent by the dest-mirrored
\* position rule is flagged is_cleanup_after_node_type_change exactly when the
\* node is not under a sentinel key and the intended key, the key of d in its
\* parent, is not a field of the current kind of the intended parent.
C25_CleanupIntendedKey ==
  [][\A d \in DestIds, s \in Ids :
       PlacesAtKey(d, s) =>
         LET e == edit_script'[Len(edit_script')]
         IN e.is_cleanup_after_node_type_change
              <=> /\ ~IsSentinel(KeyBefore(s))
                  /\ heap[dest_tree][d].key \notin NodeFields(WorkTree, e.parent_id)]_vars

\* C25, amended: the edit is flagged exactly when the key_in_parent that the
\* node has before it is placed is a slot name, is not a sentinel key, and is
\* not a field of the current kind of the parent the node is taken from.
C25_CleanupCurrentKey ==
  [][\A d \in DestIds, s \in Ids :
       PlacesAtKey(d, s) =>
         LET e == edit_script'[Len(edit_script')]
         IN e.is_cleanup_after_node_type_change
              <=> /\ IsStrKey(KeyBefore(s))
                  /\ ~IsSentinel(KeyBefore(s))
                  /\ KeyBefore(s) \notin NodeFields(WorkTree, ParentBefore(s))]_vars

\* the script has a MOVE-stage edit to a keyed parent that is flagged as a
\* cleanup, and one that is not
C25_Witness ==
  /\ pc = "delete"
  /\ ScriptHas(LAMBDA e : /\ e.stage = "MOVE" /\ e.key_in_parent # NoKey
                          /\ e.is_cleanup_after_node_type_change)
  /\ ScriptHas(LAMBDA e : /\ e.stage \in {"INSERT", "MOVE"} /\ e.key_in_parent # NoKey
                          /\ ~e.is_cleanup_after_node_type_change)


\* edit i of the script is an UPDATE that changes the kind of a keyed node
KindChanged(i) ==
  LET e == edit_script[i]
  IN /\ e.action = "UPDATE"
     /\ ~IsListNode(InSource, e.node_id)
     /\ InSource[e.node_id].kind # InDest[e.new_node_id].kind
\* the children of the node of edit i whose slot name is not a field of
\* the kind the node is updated to
Stranded(i) ==
  LET e == edit_script[i]
  IN {c \in SeqToSet(Children(InSource, e.node_id)) :
        InSource[c].key \notin Fields(InDest[e.new_node_id].kind)}
\* a later edit than edit i relocates or deletes c and carries the flag
CleanedUpAfter(i, c) ==
  \E j \in (i + 1)..Len(edit_script) :
     /\ edit_script[j].node_id = c
     /\ edit_script[j].action \in {"MOVE", "DELETE"}
     /\ edit_script[j].is_cleanup_after_node_type_change
\* c is corresponded to a child of the dest node that its parent is
\* corresponded to: it only changes slot under the same parent
StaysUnderParent(c) ==
  /\ source_to_dest[c] # NoNode
  /\ source_to_dest[InSource[c].parent] = InDest[source_to_dest[c]].parent

\* C26 (Parent-kind change): after an UPDATE changes the kind of a keyed
\* node, every child whose slot name is not a field of the new kind is
\* relocated or deleted by a later edit that carries
\* is_cleanup_after_node_type_change, a corresponded child that only
\* changes slot under the same parent included.
C26_CleanupAfterKindChange ==
  pc = "verify" =>
    \A i \in 1..Len(edit_script) :
       KindChanged(i) => \A c \in Stranded(i) : CleanedUpAfter(i, c)

\* c is corresponded to a child of a list of the dest tree
LandsInList(c) ==
  /\ source_to_dest[c] # NoNode
  /\ IsListNode(InDest, InDest[source_to_dest[c]].parent)

\* the same for the children that are deleted or go to a keyed parent
\* other than the one they have
C26_CleanupOfLeavingChildren ==
  pc = "verify" =>
    \A i \in 1..Len(edit_script) :
       KindChanged(i) =>
         \A c \in Stranded(i) :
            ~StaysUnderParent(c) /\ ~LandsInList(c) => CleanedUpAfter(i, c)


\* the step appends one edit of the INSERT, MOVE or DELETE stage, with
\* subject n
ProducesEdit(n) ==
  /\ pc \in {"insert", "move", "delete"}
  /\ Len(edit_script') = Len(edit_script) + 1
  /\ n = edit_script'[Len(edit_script')].node_id
\* the edit has is_fix_temp_key exactly when its subject n is under a
\* sentinel key when the edit is produced, and then orig_key and
\* displaced_by_id are those of n
FixTempKeyTells(e, n) ==
  IF IsSentinel(KeyBefore(n))
  THEN /\ e.is_fix_temp_key
       /\ e.orig_key = WorkTree[n].orig_key
       /\ e.displaced_by_id = WorkTree[n].displaced_by
  ELSE ~e.is_fix_temp_key

\* C27: every MOVE-stage and DELETE-stage edit whose subject carries a
\* sentinel key when the edit is produced has is_fix_temp_key with orig_key
\* and displaced_by_id copied from the node; an edit whose subject carries
\* no sentinel key never has is_fix_temp_key; the edits of the ALIGN_KEYS
\* stage (and of the other stages of the walk) never have it.
C27_FixTempKey ==
  [][/\ \A n \in Ids :
          ProducesEdit(n) => FixTempKeyTells(edit_script'[Len(edit_script')], n)
     /\ \A i \in 1..Len(edit_script') :
          edit_script'[i].stage \in {"UPDATE", "ALIGN_KEYS", "ALIGN"}
            => ~edit_script'[i].is_fix_temp_key]_vars

\* the same without the MOVE-stage edits that take their subject to a list
C27_FixTempKeyAtKeyedParent ==
  [][/\ \A n \in Ids :
          /\ ProducesEdit(n)
          /\ pc = "move" => ~IsListNode(WorkTree, edit_script'[Len(edit_script')].parent_id)
          => FixTempKeyTells(edit_script'[Len(edit_script')], n)
     /\ \A i \in 1..Len(edit_script') :
          edit_script'[i].stage \in {"UPDATE", "ALIGN_KEYS", "ALIGN"}
            => ~edit_script'[i].is_fix_temp_key]_vars


\* the two nodes that an UPDATE edit pairs, as the caller gave them
UpdatedFrom(e) == InSource[e.node_id]
UpdatedTo(e) == InDest[e.new_node_id]
BothKind(e, kind) == UpdatedFrom(e).kind = kind /\ UpdatedTo(e).kind = kind
BothStore(e) == UpdatedFrom(e).ctx = "Store" /\ UpdatedTo(e).ctx = "Store"
NamesOfRename(e) ==
  e.is_rename => /\ e.old_name = UpdatedFrom(e).ident
                 /\ e.new_name = UpdatedTo(e).ident

\* C28: an UPDATE edit carries is_rename (with old_name and new_name)
\* exactly when the two corresponded nodes both have kind Name in store
\* context or both have kind arg; an UPDATE between two Name nodes in load
\* context is not flagged as a rename.
C28_RenameOfStoresAndArgs ==
  \A i \in 1..Len(edit_script) :
     LET e == edit_script[i]
     IN e.action = "UPDATE" =>
          /\ e.is_rename <=> \/ BothKind(e, "Name") /\ BothStore(e)
                             \/ BothKind(e, "arg")
          /\ NamesOfRename(e)

\* C28, amended: an UPDATE edit carries is_rename (with old_name and
\* new_name the identifiers of the two nodes) exactly when the two
\* corresponded nodes both have kind Name, in any context, or both have
\* kind arg.
C28_RenameOfNamesAndArgs ==
  \A i \in 1..Len(edit_script) :
     LET e == edit_script[i]
     IN e.action = "UPDATE" =>
          /\ e.is_rename <=> BothKind(e, "Name") \/ BothKind(e, "arg")
          /\ NamesOfRename(e)

\* the script has an UPDATE between two Name nodes in load context that is
\* flagged and one between a Name node and an arg node that is not
C28_Witness ==
  /\ ScriptHas(LAMBDA e : /\ e.action = "UPDATE" /\ e.is_rename /\ BothKind(e, "Name")
                          /\ UpdatedFrom(e).ctx = "Load" /\ UpdatedTo(e).ctx = "Load")
  /\ ScriptHas(LAMBDA e : /\ e.action = "UPDATE" /\ ~e.is_rename
                          /\ UpdatedFrom(e).kind = "Name" /\ UpdatedTo(e).kind = "arg")


\* the walk step produces the UPDATE edit e
ProducesUpdate(e) ==
  /\ pc = "walk"
  /\ Len(edit_script') > Len(edit_script)
  /\ e = edit_script'[Len(edit_script) + 1]
  /\ e.action = "UPDATE"
RenameMapsUnchanged == UNCHANGED <<var_renames_s_to_d, var_renames_d_to_s>>
Identifiers == {InSource[n].ident : n \in Ids} \cup {InDest[n].ident : n \in Ids}

\* C29 (First store wins): once the rename map holds an entry for a source
\* identifier, a later UPDATE of a Name node in store context with the same
\* source identifier changes neither rename map, while an UPDATE of an arg
\* node always overwrites the entry; the map has at most one dest
\* identifier per source identifier.
C29_FirstStoreWins ==
  [][/\ \A i \in 1..Len(edit_script') :
          LET e == edit_script'[i]
          IN ProducesUpdate(e) =>
               /\ (/\ BothKind(e, "Name")
                   /\ UpdatedFrom(e).ctx = "Store"
                   /\ var_renames_s_to_d[UpdatedFrom(e).ident] # "")
                    => RenameMapsUnchanged
               /\ BothKind(e, "arg") =>
                    /\ var_renames_s_to_d'[UpdatedFrom(e).ident] = UpdatedTo(e).ident
                    /\ var_renames_d_to_s'[UpdatedTo(e).ident] = UpdatedFrom(e).ident
     /\ var_renames_s_to_d' \in [DOMAIN var_renames_s_to_d -> Identifiers]]_vars

\* two stores of one source identifier were updated to two different dest
\* identifiers, and the rename map holds the dest identifier of the first
C29_Witness ==
  \E i, j \in 1..Len(edit_script) :
     LET first == edit_script[i]
         later == edit_script[j]
     IN /\ i < j
        /\ first.action = "UPDATE" /\ BothKind(first, "Name") /\ BothStore(first)
        /\ later.action = "UPDATE" /\ BothKind(later, "Name") /\ BothStore(later)
        /\ first.old_name = later.old_name
        /\ first.new_name # later.new_name
        /\ var_renames_s_to_d[first.old_name] = first.new_name


\* the is_mapped pairs are the same seen from either trace, join ops of the
\* same node id, keep the order of both traces, and total_match_size counts
\* them
OrderPreservingMatching ==
  /\ \A q \in AlignedPairs :
       /\ q[2] + 1 \in 1..Len(self.dest_runtime_mapping_to_source)
       /\ self.dest_runtime_mapping_to_source[q[2] + 1].is_mapped
       /\ self.dest_runtime_mapping_to_source[q[2] + 1].mapped_op_index = q[1]
       /\ SourceNodeTrace(traces)[q[1] + 1] = DestNodeTrace(traces)[q[2] + 1]
  /\ \A k \in 1..Len(self.dest_runtime_mapping_to_source) :
       self.dest_runtime_mapping_to_source[k].is_mapped
         => <<self.dest_runtime_mapping_to_source[k].mapped_op_index, k - 1>> \in AlignedPairs
  /\ \A q, r \in AlignedPairs : q[1] < r[1] <=> q[2] < r[2]
  /\ self.total_match_size = Cardinality(AlignedPairs)

\* C30: the runtime alignment is a longest common subsequence: the
\* is_mapped pairs of a constructed comparison form an order-preserving
\* one-to-one matching between the source and the dest node-id sequences,
\* and total_match_size is the greatest length of a common subsequence of
\* the two.
C30_RuntimeAlignmentIsLCS ==
  pc = "constructed" =>
    /\ OrderPreservingMatching
    /\ self.total_match_size = LcsLen(SourceNodeTrace(traces), DestNodeTrace(traces))

\* the same with total_match_size at most the length of a longest common
\* subsequence
C30_RuntimeAlignmentIsCommon ==
  pc = "constructed" =>
    /\ OrderPreservingMatching
    /\ self.total_match_size <= LcsLen(SourceNodeTrace(traces), DestNodeTrace(traces))


\* the three texts of describe_improvement
ImprovementTexts ==
  {"The run completed", "The test passed", "The following expression evaluated correctly"}

\* C31: describe_improvement_or_regression always yields a complete
\* description: whenever old == new is false, exactly one of old < new and
\* new < old holds, and the describe_improvement call made for the better
\* side falls into one of its three cases (run completed, test passed, or a
\* strictly greater last_matching_val_dest) rather than returning nothing.
C31_CompleteDescription ==
  \A k \in 1..Len(description) :
     LET old == orig_comps[k]
         new == new_comps[k]
     IN ~Eq(old, new) =>
          /\ Lt(old, new) # Lt(new, old)
          /\ Len(description[k]) = 2
          /\ description[k][1] = IF Lt(old, new) THEN "performed better" ELSE "performed worse"
          /\ description[k][2] \in ImprovementTexts
          /\ description[k][2] = IF Lt(old, new) THEN DescribeImprovement(new, old)
                                 ELSE DescribeImprovement(old, new)

\* the descriptions of a pair whose new version got further in the dest run
\* and of a pair whose new version no longer completes
C31_Witness ==
  /\ Len(description) = 2
  /\ description[1] = <<"performed better", "The following expression evaluated correctly">>
  /\ description[2] = <<"performed worse", "The run completed">>
  /\ new_comps[2].test_passed

=============================================================================
